---- MODULE Spec2Model ----
(***************************************************************************)
(* Model of the fertilizer recommendation server (src/server.js) and its   *)
(* JSON record store (src/database_js.js).                                 *)
(*                                                                         *)
(* Geographic coordinates and the raster geometry are JavaScript numbers,  *)
(* i.e. binary floating point values.  They are modelled as binary floats  *)
(* with a MantBits-bit significand and round-to-nearest-even after every   *)
(* arithmetic operation (IEEE-754 doubles have 53 bits).  Nutrient amounts *)
(* are modelled in fixed point.                                            *)
(***************************************************************************)
EXTENDS Integers, Sequences, FiniteSets, TLC

VARIABLES
    disk,          \* the raster files present when the server starts
    geotiffCache,  \* geotiffCache of server.js, one entry per layer
    started,       \* startServer has loaded the rasters
    input,         \* the arguments of the call, or the body of the request
    probe,         \* what that call did and returned
    fertilizerFeatures,  \* point features with fertilizer efficiencies
    farmingFeatures,     \* point features with sowing dates
    db,            \* the DatabaseManager: _data, _nextId and _saveTimer
    dataFile,      \* fertilizer_data.json
    resp,          \* the HTTP response sent for the request
    now            \* Date.now(), in quarters of a day since ClockEpoch

vars == <<disk, geotiffCache, started, input, probe,
          fertilizerFeatures, farmingFeatures, db, dataFile, resp, now>>

\* JavaScript values that are not always numbers
Null == [k |-> "null"]
Undefined == [k |-> "undefined"]
Num(v) == [k |-> "num", v |-> v]
IsNum(x) == x.k = "num"

\* a comparison with null, undefined or NaN on the left is false here (null is
\* never compared in the code modelled)
NumLt(x, n) == IsNum(x) /\ x.v < n
NumGt(x, n) == IsNum(x) /\ x.v > n

\* const x = v; the value of Body for that x (v is computed once)
Bind(v, Body(_)) == CHOOSE out \in {Body(x) : x \in {v}} : TRUE

(***************************************************************************)
(* Binary floating point                                                   *)
(***************************************************************************)
\* significand width of the modelled floats
MantBits == 8

RECURSIVE Pow2(_)
Pow2(n) == IF n <= 0 THEN 1 ELSE 2 * Pow2(n - 1)

RECURSIVE BitLen(_)
BitLen(m) == IF m = 0 THEN 0 ELSE 1 + BitLen(m \div 2)

FZero == [m |-> 0, e |-> 0]

\* m * 2^e (m >= 0) rounded to MantBits significant bits, ties to even;
\* sticky says that bits below m were already dropped.
FRound(m, e, sticky) ==
    IF m = 0 THEN FZero
    ELSE LET n == BitLen(m) IN
         IF n <= MantBits
         THEN [m |-> m * Pow2(MantBits - n), e |-> e - (MantBits - n)]
         ELSE LET k    == n - MantBits
                  q    == m \div Pow2(k)
                  r    == m % Pow2(k)
                  half == Pow2(k - 1)
                  up   == r > half \/ (r = half /\ (sticky \/ q % 2 = 1))
                  q1   == IF up THEN q + 1 ELSE q
              IN IF q1 = Pow2(MantBits)
                 THEN [m |-> Pow2(MantBits - 1), e |-> e + k + 1]
                 ELSE [m |-> q1, e |-> e + k]

FNeg(a) == [m |-> 0 - a.m, e |-> a.e]

FSigned(neg, f) == IF neg THEN FNeg(f) ELSE f

AbsInt(n) == IF n < 0 THEN 0 - n ELSE n

MinInt(a, b) == IF a < b THEN a ELSE b

\* the two significands brought to the common exponent
FAlign(a, b) ==
    LET e == IF a.m = 0 THEN b.e ELSE IF b.m = 0 THEN a.e ELSE MinInt(a.e, b.e)
    IN [ma |-> IF a.m = 0 THEN 0 ELSE a.m * Pow2(a.e - e),
        mb |-> IF b.m = 0 THEN 0 ELSE b.m * Pow2(b.e - e),
        e  |-> e]

FAdd(a, b) ==
    LET al == FAlign(a, b)
        s  == al.ma + al.mb
    IN FSigned(s < 0, FRound(AbsInt(s), al.e, FALSE))

FSub(a, b) == FAdd(a, FNeg(b))

FMul(a, b) ==
    LET p == a.m * b.m
    IN FSigned(p < 0, FRound(AbsInt(p), a.e + b.e, FALSE))

\* b # 0; the quotient is formed with MantBits + 2 extra bits and a sticky bit
FDiv(a, b) ==
    LET s   == MantBits + 2
        num == AbsInt(a.m) * Pow2(s)
        den == AbsInt(b.m)
    IN FSigned((a.m < 0) # (b.m < 0),
               FRound(num \div den, a.e - b.e - s, num % den # 0))

FLt(a, b) == LET al == FAlign(a, b) IN al.ma < al.mb

FGt(a, b) == FLt(b, a)

\* Math.floor
FFloor(a) == IF a.e >= 0 THEN a.m * Pow2(a.e) ELSE a.m \div Pow2(0 - a.e)

FromInt(n) == FSigned(n < 0, FRound(AbsInt(n), 0, FALSE))

(***************************************************************************)
(* Raster layers: loadGeoTIFFs and extractValueFromGeoTIFF                 *)
(***************************************************************************)
Layers == {"AN", "AP", "AK"}

\* the NoData sentinels tested by extractValueFromGeoTIFF
NoDataA == -9999
NoDataB == -32768
NoDataHigh == 100000

\* a cache entry before loading, or for a file that is missing or unreadable
NotLoaded == [loaded |-> FALSE]

\* one cache entry as built by loadGeoTIFFs from an image of width x height
\* pixels with bounding box [minX, minY, maxX, maxY]
MakeLayer(data, width, height, minX, minY, maxX, maxY) ==
    [loaded     |-> TRUE,
     data       |-> data,
     width      |-> width,
     height     |-> height,
     minX       |-> FromInt(minX),
     maxY       |-> FromInt(maxY),
     maxX       |-> FromInt(maxX),
     minY       |-> FromInt(minY),
     cellWidth  |-> FDiv(FSub(FromInt(maxX), FromInt(minX)), FromInt(width)),
     cellHeight |-> FDiv(FSub(FromInt(maxY), FromInt(minY)), FromInt(height))]

\* PixelAccess without the re-check of col and row after flooring
PixelAccessNoRecheck(cache, lon, lat) ==
    IF FLt(lon, cache.minX) \/ FGt(lon, cache.maxX)
       \/ FLt(lat, cache.minY) \/ FGt(lat, cache.maxY)
    THEN [read |-> FALSE, why |-> "bbox"]
    ELSE Bind(FFloor(FDiv(FSub(lon, cache.minX), cache.cellWidth)), LAMBDA col :
         Bind(FFloor(FDiv(FSub(cache.maxY, lat), cache.cellHeight)), LAMBDA row :
             [read |-> TRUE, col |-> col, row |-> row,
              idx |-> row * cache.width + col]))

\* The pixel access of extractValueFromGeoTIFF for a loaded layer: either
\* no access (the function returned null before indexing) or the index read.
PixelAccess(cache, lon, lat) ==
    IF FLt(lon, cache.minX) \/ FGt(lon, cache.maxX)
       \/ FLt(lat, cache.minY) \/ FGt(lat, cache.maxY)
    THEN [read |-> FALSE, why |-> "bbox"]
    ELSE Bind(FFloor(FDiv(FSub(lon, cache.minX), cache.cellWidth)), LAMBDA col :
         Bind(FFloor(FDiv(FSub(cache.maxY, lat), cache.cellHeight)), LAMBDA row :
             IF col < 0 \/ col >= cache.width \/ row < 0 \/ row >= cache.height
             THEN [read |-> FALSE, why |-> "pixel"]
             ELSE [read |-> TRUE, col |-> col, row |-> row,
                   idx |-> row * cache.width + col]))

\* cache.data[idx] of a JavaScript array (0-based; undefined past the end)
ReadSample(data, idx) ==
    IF idx >= 0 /\ idx < Len(data) THEN Num(data[idx + 1]) ELSE Undefined

IsNoData(value) ==
    value < NoDataA \/ value > NoDataHigh \/ value = NoDataA \/ value = NoDataB

\* the value extractValueFromGeoTIFF returns once the pixel access is known
SampleResult(cache, acc) ==
    IF ~acc.read THEN Null
    ELSE LET value == ReadSample(cache.data, acc.idx) IN
         IF IsNum(value) /\ IsNoData(value.v) THEN Null ELSE value

extractValueFromGeoTIFF(lon, lat, layer) ==
    LET cache == geotiffCache[layer] IN
    IF ~cache.loaded THEN Null
    ELSE SampleResult(cache, PixelAccess(cache, lon, lat))

\* lon = bbox[0] + col * cellWidth, lat = bbox[3] - row * cellHeight
PixelToCoord(cache, col, row) ==
    [lon |-> FAdd(cache.minX, FMul(FromInt(col), cache.cellWidth)),
     lat |-> FSub(cache.maxY, FMul(FromInt(row), cache.cellHeight))]

(***************************************************************************)
(* Raster files that may be on disk when the server starts                 *)
(***************************************************************************)
\* sample i (0-based) of file variant v: distinct values per pixel, with
\* NoData sentinels, a zero, a small negative and an over-range value mixed in
FileSample(v, i) ==
    CASE i % 7 = 3 /\ v = 1 -> NoDataB
      [] i % 7 = 5 /\ v = 1 -> NoDataA
      [] i % 7 = 6 /\ v = 2 -> NoDataHigh + 1
      [] i = 1 /\ v = 2     -> 0
      [] i = 2 /\ v = 2     -> -5
      [] OTHER              -> 600 + 37 * i + 100 * v

FileData(v, n) == [i \in 1..n |-> FileSample(v, i - 1)]

\* the coordinate window accepted by the routes
ValidLonMin == 110
ValidLonMax == 122
ValidLatMin == 28
ValidLatMax == 33

\* raster geometries: the deployment window and a smaller clip
GridW1 == 5
GridH1 == 3
GridW2 == 4
GridH2 == 4

RasterFile(v) ==
    IF v = 1
    THEN MakeLayer(FileData(1, GridW1 * GridH1), GridW1, GridH1,
                   ValidLonMin, ValidLatMin, ValidLonMax, ValidLatMax)
    ELSE MakeLayer(FileData(2, GridW2 * GridH2), GridW2, GridH2,
                   ValidLonMin + 2, ValidLatMin + 1, ValidLonMax - 4, ValidLatMax - 1)

FileVariants == {1, 2}

\* what loadGeoTIFFs leaves in the cache for one layer: nothing when the file
\* is missing or fails to load, else the layer read from it
DiskChoices == {NotLoaded} \cup {RasterFile(v) : v \in FileVariants}

(***************************************************************************)
(* State, and the raster sampler on its own                                *)
(***************************************************************************)
NoProbe == [op |-> "none"]

\* no response sent yet
NoResponse == [status |-> 0]

\* new DatabaseManager()
EmptyDb ==
    [calculations |-> <<>>, user_sessions |-> <<>>, nextId |-> 1, saveTimer |-> FALSE]

\* fertilizer_data.json: missing, or as _save() writes the data of d
NoDataFile == [exists |-> FALSE]
StoredIn(d) ==
    [exists |-> TRUE, calculations |-> d.calculations, user_sessions |-> d.user_sessions]

\* module load: nothing cached yet, no request served
InitModule ==
    /\ geotiffCache = [l \in Layers |-> NotLoaded]
    /\ started = FALSE
    /\ probe = NoProbe
    /\ resp = NoResponse

\* the same when the time of day plays no part
InitServer == InitModule /\ now = 0

\* no GeoJSON files, and the empty data file that init() creates
InitNoData ==
    /\ fertilizerFeatures = <<>>
    /\ farmingFeatures = <<>>
    /\ db = EmptyDb
    /\ dataFile = StoredIn(db)

\* startServer: loadGeoTIFFs fills the cache once, before the server listens
loadGeoTIFFs ==
    /\ ~started
    /\ geotiffCache' = disk
    /\ started' = TRUE
    /\ UNCHANGED <<disk, input, probe, fertilizerFeatures, farmingFeatures, db, dataFile, resp, now>>

\* coordinates probed: whole degrees inside the window and a margin around it
ProbeMargin == 1
ProbeLons == (ValidLonMin - ProbeMargin)..(ValidLonMax + ProbeMargin)
ProbeLats == (ValidLatMin - ProbeMargin)..(ValidLatMax + ProbeMargin)

\* the largest grid of the raster files
MaxGridW == IF GridW1 > GridW2 THEN GridW1 ELSE GridW2
MaxGridH == IF GridH1 > GridH2 THEN GridH1 ELSE GridH2

RasterInputs ==
    [op : {"point"}, layer : Layers,
     x : ProbeLons, y : ProbeLats]
    \cup [op : {"pixel"}, layer : Layers,
          col : 0..(MaxGridW - 1), row : 0..(MaxGridH - 1)]

InitRaster ==
    /\ InitServer
    /\ InitNoData
    /\ disk \in [Layers -> DiskChoices]
    /\ input \in RasterInputs

\* extractValueFromGeoTIFF(lon, lat, layer) at an arbitrary coordinate
SamplePoint ==
    /\ started
    /\ input.op = "point"
    /\ probe = NoProbe
    /\ LET lon == FromInt(input.x)
           lat == FromInt(input.y)
           cache == geotiffCache[input.layer]
       IN probe' = [op |-> "point", lon |-> lon, lat |-> lat,
                    access |-> IF cache.loaded THEN PixelAccess(cache, lon, lat)
                               ELSE [read |-> FALSE, why |-> "layer"],
                    result |-> extractValueFromGeoTIFF(lon, lat, input.layer)]
    /\ UNCHANGED <<disk, geotiffCache, started, input, fertilizerFeatures, farmingFeatures, db, dataFile, resp, now>>

\* the sampler applied to the coordinate of a pixel of the layer itself
SamplePixel ==
    /\ started
    /\ input.op = "pixel"
    /\ probe = NoProbe
    /\ geotiffCache[input.layer].loaded
    /\ input.col < geotiffCache[input.layer].width
    /\ input.row < geotiffCache[input.layer].height
    /\ LET cache == geotiffCache[input.layer]
           c == PixelToCoord(cache, input.col, input.row)
       IN probe' = [op |-> "pixel", lon |-> c.lon, lat |-> c.lat,
                    access |-> PixelAccess(cache, c.lon, c.lat),
                    result |-> extractValueFromGeoTIFF(c.lon, c.lat, input.layer)]
    /\ UNCHANGED <<disk, geotiffCache, started, input, fertilizerFeatures, farmingFeatures, db, dataFile, resp, now>>

NextRaster == loadGeoTIFFs \/ SamplePoint \/ SamplePixel

SpecRaster == InitRaster /\ [][NextRaster]_vars

(***************************************************************************)
(* Soil nutrient resolver.  Soil contents are in hundredths of mg/kg.      *)
(***************************************************************************)
NaN == [k |-> "nan"]

Nutrients == {"N", "P", "K"}

LayerOf(x) == CASE x = "N" -> "AN" [] x = "P" -> "AP" [] OTHER -> "AK"

\* the thresholds of getNutrientLevel, and the level of a value
LevelLow(type) == CASE type = "AN" -> 5000 [] type = "AP" -> 500 [] OTHER -> 5000
LevelMedium(type) == CASE type = "AN" -> 9000 [] type = "AP" -> 1000 [] OTHER -> 10000
LevelHigh(type) == CASE type = "AN" -> 12000 [] type = "AP" -> 2000 [] OTHER -> 15000

getNutrientLevel(value, type) ==
    IF NumLt(value, LevelLow(type)) THEN "low"
    ELSE IF NumLt(value, LevelMedium(type)) THEN "medium"
    ELSE IF NumLt(value, LevelHigh(type)) THEN "high"
    ELSE "very_high"

\* Math.round(raw) / 10 for AN and AK, Math.round(raw) / 100 for AP
DecodeRaster(raw, layer) ==
    IF ~IsNum(raw) THEN NaN
    ELSE IF layer = "AP" THEN Num(raw.v) ELSE Num(raw.v * 10)

\* one entry of getSoilNutrientsFromGeoTIFF: null, or the decoded value with
\* the level of raw / scaleFactor
GeoTIFFEntry(lon, lat, layer) ==
    Bind(extractValueFromGeoTIFF(lon, lat, layer),
         LAMBDA raw :
             IF raw = Null THEN Null
             ELSE [k |-> "entry",
                   value |-> DecodeRaster(raw, layer),
                   nutrient_level |-> getNutrientLevel(DecodeRaster(raw, layer), layer)])

getSoilNutrientsFromGeoTIFF(lon, lat) ==
    Bind([AN |-> GeoTIFFEntry(lon, lat, "AN"), AP |-> GeoTIFFEntry(lon, lat, "AP"),
          AK |-> GeoTIFFEntry(lon, lat, "AK")],
         LAMBDA e : e @@ [has_valid_data |-> \E l \in Layers : e[l] # Null])

\* the value of a coordinate in hundredths of a degree
FToCenti(f) ==
    IF f.e >= 0 THEN f.m * 100 * Pow2(f.e) ELSE (f.m * 100) \div Pow2(0 - f.e)

\* ClampTo without the upper limit
ClampToFloor(lo, hi, v) == IF v < lo THEN lo ELSE v

\* Math.max(lo, Math.min(hi, v))
ClampTo(lo, hi, v) == IF v < lo THEN lo ELSE IF v > hi THEN hi ELSE v

\* Math.round(v * 10) / 10 of a value in hundredths
RoundToTenth(v) == ((v + 5) \div 10) * 10

\* Math.random() * (max - min) + min, with Math.random() = u / RandomScale
RandomScale == 4
Rand(u, min, max) == (u * (max - min)) \div RandomScale + min

\* u[x] is the Math.random() draw made for nutrient x
getSimulatedSoilNutrients(lon, lat, u) ==
    LET dx == FToCenti(lon) - 11400
        dy == FToCenti(lat) - 3000
        AN == ClampTo(5000, 15000, 8920 + dx * 2 + dy * 3 + Rand(u["N"], -1000, 1000))
        AP == ClampTo(500, 4000, 2380 + dx \div 2 + (dy * 8) \div 10
                                 + Rand(u["P"], -500, 500))
        AK == ClampTo(6000, 20000, 10500 + (dx * 15) \div 10 + dy * 2
                                   + Rand(u["K"], -2000, 2000))
    IN [soil |-> [N |-> Num(RoundToTenth(AN)), P |-> Num(RoundToTenth(AP)),
                  K |-> Num(RoundToTenth(AK))],
        nutrient_levels |-> [N |-> getNutrientLevel(Num(AN), "AN"),
                             P |-> getNutrientLevel(Num(AP), "AP"),
                             K |-> getNutrientLevel(Num(AK), "AK")],
        data_source |-> [x \in Nutrients |-> "simulated"],
        is_default |-> TRUE]

\* custom_soil_data: absent, or an object whose N, P, K are numbers or null
NoCustom == [present |-> FALSE]
Custom(n, p, k) == [present |-> TRUE, v |-> [N |-> n, P |-> p, K |-> k]]

\* ResolveNutrient with the raster entry taking precedence over manual input
ResolveNutrientRasterFirst(x, geo, simulated, customSoilData) ==
    LET entry == geo[LayerOf(x)] IN
    IF geo.has_valid_data /\ entry # Null
    THEN [value |-> entry.value, level |-> entry.nutrient_level, source |-> "GeoTIFF"]
    ELSE IF customSoilData.present /\ customSoilData.v[x] # Null
    THEN [value |-> customSoilData.v[x],
          level |-> getNutrientLevel(customSoilData.v[x], LayerOf(x)),
          source |-> "manual"]
    ELSE [value |-> simulated.soil[x], level |-> simulated.nutrient_levels[x],
          source |-> "simulated"]

\* ResolveNutrient without the simulated fill
ResolveNutrientNoFill(x, geo, simulated, customSoilData) ==
    LET entry == geo[LayerOf(x)] IN
    IF customSoilData.present /\ customSoilData.v[x] # Null
    THEN [value |-> customSoilData.v[x],
          level |-> getNutrientLevel(customSoilData.v[x], LayerOf(x)),
          source |-> "manual"]
    ELSE IF geo.has_valid_data /\ entry # Null
    THEN [value |-> entry.value, level |-> entry.nutrient_level, source |-> "GeoTIFF"]
    ELSE [value |-> Null, level |-> "unknown", source |-> "simulated"]

\* the three steps of getSoilNutrientsWithCustom for nutrient x: the raster
\* entry, the simulated fill, the manual override
ResolveNutrient(x, geo, simulated, customSoilData) ==
    LET entry == geo[LayerOf(x)]
        fromGeo == geo.has_valid_data /\ entry # Null
        base == IF fromGeo
                THEN [value |-> entry.value, level |-> entry.nutrient_level,
                      source |-> "GeoTIFF"]
                ELSE [value |-> Null, level |-> "unknown", source |-> "simulated"]
        filled == IF base.value = Null
                  THEN [value |-> simulated.soil[x],
                        level |-> simulated.nutrient_levels[x],
                        source |-> "simulated"]
                  ELSE base
    IN IF customSoilData.present /\ customSoilData.v[x] # Null
       THEN [value |-> customSoilData.v[x],
             level |-> getNutrientLevel(customSoilData.v[x], LayerOf(x)),
             source |-> "manual"]
       ELSE filled

\* is_default is cleared only by a raster entry
ResolveIsDefault(geo) ==
    ~(geo.has_valid_data /\ \E l \in Layers : geo[l] # Null)

ResolveUseCustom(customSoilData) ==
    customSoilData.present /\ \E x \in Nutrients : customSoilData.v[x] # Null

getSoilNutrientsWithCustom(lon, lat, customSoilData, u) ==
    Bind(getSoilNutrientsFromGeoTIFF(lon, lat), LAMBDA geo :
    Bind(getSimulatedSoilNutrients(lon, lat, u), LAMBDA simulated :
    Bind([N |-> ResolveNutrient("N", geo, simulated, customSoilData),
          P |-> ResolveNutrient("P", geo, simulated, customSoilData),
          K |-> ResolveNutrient("K", geo, simulated, customSoilData)], LAMBDA r :
        [soil |-> [N |-> r.N.value, P |-> r.P.value, K |-> r.K.value],
         nutrient_levels |-> [N |-> r.N.level, P |-> r.P.level, K |-> r.K.level],
         data_source |-> [N |-> r.N.source, P |-> r.P.source, K |-> r.K.source],
         is_default |-> ResolveIsDefault(geo),
         use_custom |-> ResolveUseCustom(customSoilData)])))

(***************************************************************************)
(* Split ratios: adjustFertilizerRatio                                     *)
(* Fractions are in hundredths, temperatures in tenths of a degree.        *)
(***************************************************************************)
Crops == {"rice", "wheat"}

\* new Date(s): an ISO calendar date, or Invalid Date for text that does not
\* parse.  Invalid Date never throws; its year and its time value are NaN.
InvalidDate == [valid |-> FALSE]
Date(y, m, d) == [valid |-> TRUE, y |-> y, m |-> m, d |-> d]

IsLeap(y) == (y % 4 = 0 /\ y % 100 # 0) \/ y % 400 = 0

DaysInMonth(y, m) ==
    CASE m \in {4, 6, 9, 11} -> 30
      [] m = 2 -> IF IsLeap(y) THEN 29 ELSE 28
      [] OTHER -> 31

RECURSIVE DaysBefore(_, _)
DaysBefore(y, m) == IF m <= 1 THEN 0 ELSE DaysBefore(y, m - 1) + DaysInMonth(y, m - 1)

DayOfYear(date) == DaysBefore(date.y, date.m) + date.d

\* defaultParams[cropType].normal_sowing_date
NormalSowingMonth(cropType) == IF cropType = "rice" THEN 6 ELSE 11
NormalSowingDay(cropType) == IF cropType = "rice" THEN 17 ELSE 1

\* Math.round((actualDate - normalDate) / 86400000) with normalDate in the
\* year of actualDate; NaN when the sowing date did not parse
DaysDiff(sowingDate, cropType) ==
    IF ~sowingDate.valid THEN NaN
    ELSE Num(DayOfYear(sowingDate)
             - DayOfYear(Date(sowingDate.y, NormalSowingMonth(cropType),
                              NormalSowingDay(cropType))))

Clamp01(f) == IF f < 0 THEN 0 ELSE IF f > 100 THEN 100 ELSE f

Ratios(b, m, l) == [base |-> b, mid |-> m, late |-> l]

RiceColdTemp == 200
WheatColdTemp == 100
ColdShift == 5

\* the cold adjustment with the subtraction from the late stage left out
ColdAdjustAddOnly(r, cold) ==
    IF cold THEN Ratios(r.base + ColdShift, r.mid, r.late) ELSE r

\* the cold adjustment that takes the shift from the middle stage
ColdAdjustFromMid(r, cold) ==
    IF cold THEN Ratios(r.base + ColdShift, r.mid - ColdShift, r.late) ELSE r

\* if (tempForecast < threshold) { base += 0.05; late -= 0.05; }
ColdAdjust(r, cold) ==
    IF cold THEN Ratios(r.base + ColdShift, r.mid, r.late - ColdShift) ELSE r

\* adjustFertilizerRatio in which a difference of exactly 7 days already
\* leaves the normal regime
adjustFertilizerRatioSevenOut(sowingDate, cropType, tempForecast) ==
    IF cropType \notin Crops
    THEN Ratios(65, 25, 10)
    ELSE LET daysDiff == DaysDiff(sowingDate, cropType) IN
         IF cropType = "rice"
         THEN LET r == ColdAdjust(
                         IF NumLt(daysDiff, -6) THEN Ratios(40, 25, 35)
                         ELSE IF NumGt(daysDiff, 6) THEN Ratios(55, 30, 15)
                         ELSE Ratios(50, 25, 25),
                         tempForecast < RiceColdTemp)
              IN Ratios(Clamp01(r.base), Clamp01(r.mid), Clamp01(r.late))
         ELSE LET r == ColdAdjust(
                         IF NumLt(daysDiff, -6) THEN Ratios(60, 25, 15)
                         ELSE IF NumGt(daysDiff, 6) THEN Ratios(70, 20, 10)
                         ELSE Ratios(65, 25, 10),
                         tempForecast < WheatColdTemp)
              IN Ratios(Clamp01(r.base), Clamp01(r.mid), Clamp01(r.late))

\* mid is tiller_ratio / jointing_ratio, late is panicle_ratio / booting_ratio.
\* The catch branch is reached only when defaultParams[cropType] is undefined.
adjustFertilizerRatio(sowingDate, cropType, tempForecast) ==
    IF cropType \notin Crops
    THEN Ratios(65, 25, 10)
    ELSE LET daysDiff == DaysDiff(sowingDate, cropType) IN
         IF cropType = "rice"
         THEN LET r == ColdAdjust(
                         IF NumLt(daysDiff, -7) THEN Ratios(40, 25, 35)
                         ELSE IF NumGt(daysDiff, 7) THEN Ratios(55, 30, 15)
                         ELSE Ratios(50, 25, 25),
                         tempForecast < RiceColdTemp)
              IN Ratios(Clamp01(r.base), Clamp01(r.mid), Clamp01(r.late))
         ELSE LET r == ColdAdjust(
                         IF NumLt(daysDiff, -7) THEN Ratios(60, 25, 15)
                         ELSE IF NumGt(daysDiff, 7) THEN Ratios(70, 20, 10)
                         ELSE Ratios(65, 25, 10),
                         tempForecast < WheatColdTemp)
              IN Ratios(Clamp01(r.base), Clamp01(r.mid), Clamp01(r.late))

\* the normal-regime fractions of a crop
NormalRatios(cropType) ==
    IF cropType = "rice" THEN Ratios(50, 25, 25) ELSE Ratios(65, 25, 10)

\* sowing dates tried: every day of a common and of a leap year, and text
\* that is not a date
SowingYears == {2024, 2026}
SowingDates ==
    {InvalidDate} \cup
    {dt \in {Date(y, m, d) : y \in SowingYears, m \in 1..12, d \in 1..31} :
        dt.d <= DaysInMonth(dt.y, dt.m)}

\* forecast temperatures tried, around both cold thresholds
TempStep == 25
TempSteps == 6
Temperatures == {75 + TempStep * i : i \in 0..TempSteps}

RatioInputs ==
    [op : {"ratio"}, sowingDate : SowingDates,
     cropType : Crops \cup {"maize"}, tempForecast : Temperatures]

NoFiles == [l \in Layers |-> NotLoaded]

InitRatio ==
    /\ InitServer
    /\ InitNoData
    /\ disk = NoFiles
    /\ input \in RatioInputs

CallAdjustFertilizerRatio ==
    /\ input.op = "ratio"
    /\ probe = NoProbe
    /\ probe' = [op |-> "ratio",
                 result |-> adjustFertilizerRatio(input.sowingDate, input.cropType,
                                                  input.tempForecast)]
    /\ UNCHANGED <<disk, geotiffCache, started, input, fertilizerFeatures, farmingFeatures, db, dataFile, resp, now>>

NextRatio == CallAdjustFertilizerRatio

SpecRatio == InitRatio /\ [][NextRatio]_vars

(***************************************************************************)
(* Nutrient balance.  Masses are in thousandths of a kg per mu, yields in  *)
(* tenths of a kg, efficiencies in thousandths, correction factors in      *)
(* ten-thousandths; reported masses are in tenths of a kg.                 *)
(***************************************************************************)
\* arithmetic that propagates NaN
XScale(x, num, den) == IF IsNum(x) THEN Num((x.v * num) \div den) ELSE NaN
XPlus(x, n) == IF IsNum(x) THEN Num(x.v + n) ELSE NaN
\* Math.max(0, x)
XMax0(x) == IF IsNum(x) THEN Num(IF x.v < 0 THEN 0 ELSE x.v) ELSE NaN
\* Math.round(x * 10) / 10, from thousandths to tenths
XRoundTenth(x) == IF IsNum(x) THEN Num((x.v + 50) \div 100) ELSE NaN

\* defaultParams[cropType]
CropParams(cropType) ==
    IF cropType = "rice"
    THEN [per100kg |-> [N |-> 22, P |-> 12, K |-> 25],
          straw |-> [N |-> 60, P |-> 10, K |-> 180],
          straw_moisture |-> 40,
          release |-> [N |-> -60, P |-> 65, K |-> 80],
          efficiency |-> [N |-> 300, P |-> 250, K |-> 450]]
    ELSE [per100kg |-> [N |-> 30, P |-> 15, K |-> 28],
          straw |-> [N |-> 50, P |-> 10, K |-> 120],
          straw_moisture |-> 15,
          release |-> [N |-> 35, P |-> 75, K |-> 90],
          efficiency |-> [N |-> 400, P |-> 180, K |-> 500]]

\* (targetYield / 100) * X_per_100kg
calculateNutrientRequirement(targetYield, cropType) ==
    [x \in Nutrients |-> (targetYield * CropParams(cropType).per100kg[x]) \div 10]

\* exp(x) for x in ten-thousandths: e^floor(x) times the series of the fraction
ExpE == 27183
RECURSIVE ExpSeries(_, _, _, _)
ExpSeries(f, term, n, acc) ==
    IF n > 8 \/ term = 0 THEN acc
    ELSE ExpSeries(f, (term * f) \div (n * 10000), n + 1, acc + (term * f) \div (n * 10000))

RECURSIVE ExpShift(_, _)
ExpShift(v, ip) ==
    IF ip = 0 THEN v
    ELSE IF ip < 0 THEN ExpShift((v * 10000) \div ExpE, ip + 1)
    ELSE ExpShift((v * ExpE) \div 10000, ip - 1)

Exp(x) == ExpShift(ExpSeries(x % 10000, 10000, 1, 10000), x \div 10000)

\* the rice correction (a + b / soil) / 100; dividing by a soil value of 0
\* gives Infinity
RiceCorr(a, b, soil) ==
    IF soil = 0 THEN [k |-> "inf"] ELSE Num(a + b \div soil)

\* the wheat correction c * exp(-r * soil)
WheatCorr(c, r, soil) == Num((c * Exp(0 - ((r * soil) \div 10000))) \div 10000)

SoilCorr(x, soil, cropType) ==
    IF cropType = "rice"
    THEN CASE x = "N" -> RiceCorr(322, 47999239, soil)
           [] x = "P" -> RiceCorr(1749, 22359674, soil)
           [] OTHER   -> RiceCorr(1074, 61471032, soil)
    ELSE CASE x = "N" -> WheatCorr(8212, 5429, soil)
           [] x = "P" -> WheatCorr(19760, 41744, soil)
           [] OTHER   -> WheatCorr(11038, 6362, soil)

\* soil_impact.organic_matter_impact, organic matter in tenths of g/kg
OrganicMatterImpact(x, om) ==
    CASE x = "N" -> 10000 + 15 * (om - 200)
      [] x = "P" -> 10000 + 10 * (om - 200)
      [] OTHER   -> 10000 + 8 * (om - 200)

\* soil_impact.ph_impact_on_p.adjustment in tenths, pH in hundredths
PhImpact(ph) == IF ph >= 600 /\ ph <= 700 THEN 10 ELSE 7

\* soil * 0.15 * corr * omImpact [* phImpact]; 0 * Infinity is NaN
SoilSupplyOf(x, soil, organicMatter, soilPh, cropType) ==
    IF ~IsNum(soil) THEN NaN
    ELSE LET corr == SoilCorr(x, soil.v, cropType) IN
         IF ~IsNum(corr) THEN NaN
         ELSE LET raw == (((((soil.v * corr.v) \div 100) * 15) \div 1000)
                          * OrganicMatterImpact(x, organicMatter)) \div 10000
              IN Num(IF x = "P" THEN (raw * PhImpact(soilPh)) \div 10 ELSE raw)

calculateSoilSupply(soil, organicMatter, soilPh, cropType) ==
    [x \in Nutrients |-> SoilSupplyOf(x, soil[x], organicMatter, soilPh, cropType)]

\* dry straw mass, amount in kg
StrawDryWeight(amount, strawType) ==
    amount * 10 * (100 - CropParams(strawType).straw_moisture)

calculateStrawSupply(amount, strawType) ==
    IF amount <= 0
    THEN [supply |-> [x \in Nutrients |-> 0], additional |-> 0]
    ELSE LET p == CropParams(strawType)
             dryWeight == StrawDryWeight(amount, strawType)
         IN [supply |-> [x \in Nutrients |->
                           (((dryWeight * p.straw[x]) \div 10000) * p.release[x]) \div 100],
             additional |-> dryWeight \div 200]

\* yield_levels of wheat: formula fertilizer and tillering urea (mid-range)
getWheatFertilizerByYield(targetYield) ==
    IF targetYield >= 0 /\ targetYield <= 3000 THEN [formula |-> 27500, urea |-> 7000]
    ELSE IF targetYield >= 3000 /\ targetYield <= 4000 THEN [formula |-> 35000, urea |-> 9000]
    ELSE IF targetYield >= 4000 /\ targetYield <= 5000 THEN [formula |-> 45000, urea |-> 11000]
    ELSE [formula |-> 52500, urea |-> 13000]

(***************************************************************************)
(* Point features: fertilizer efficiency and sowing dates                  *)
(***************************************************************************)
\* sqdist(f.coords, [lon, lat]) in hundredths of a degree
sqdist(coords, lon, lat) ==
    (coords[1] - FToCenti(lon)) * (coords[1] - FToCenti(lon))
    + (coords[2] - FToCenti(lat)) * (coords[2] - FToCenti(lat))

\* NearestFrom in which a feature at the same distance replaces the best one
RECURSIVE NearestFromLastTie(_, _, _, _, _)
NearestFromLastTie(candidates, i, best, lon, lat) ==
    IF i > Len(candidates) THEN best
    ELSE NearestFromLastTie(candidates, i + 1,
                     IF sqdist(candidates[i].coords, lon, lat) <= sqdist(best.coords, lon, lat)
                     THEN candidates[i] ELSE best,
                     lon, lat)

\* candidates.reduce((best, f) => sqdist(f) < sqdist(best) ? f : best)
RECURSIVE NearestFrom(_, _, _, _, _)
NearestFrom(candidates, i, best, lon, lat) ==
    IF i > Len(candidates) THEN best
    ELSE NearestFrom(candidates, i + 1,
                     IF sqdist(candidates[i].coords, lon, lat) < sqdist(best.coords, lon, lat)
                     THEN candidates[i] ELSE best,
                     lon, lat)

Nearest(candidates, lon, lat) == NearestFrom(candidates, 2, candidates[1], lon, lat)

NoEfficiency == [x \in Nutrients |-> Null]

getFertilizerEfficiency(features, lon, lat, cropType) ==
    LET OfCrop(f) == f.crop = cropType /\ f.eff["N"] # Null
        WithN(f) == f.eff["N"] # Null
        matching == SelectSeq(features, OfCrop)
        candidates == IF matching # <<>> THEN matching ELSE SelectSeq(features, WithN)
    IN IF features = <<>> \/ candidates = <<>> THEN NoEfficiency
       ELSE Nearest(candidates, lon, lat).eff

getSowingDate(features, lon, lat, cropType) ==
    LET OfCrop(f) == f.crop = cropType /\ f.sowing_date_start # Null
        WithDate(f) == f.sowing_date_start # Null
        matching == SelectSeq(features, OfCrop)
        candidates == IF matching # <<>> THEN matching ELSE SelectSeq(features, WithDate)
    IN IF features = <<>> \/ candidates = <<>> THEN Null
       ELSE LET nearest == Nearest(candidates, lon, lat)
            IN [k |-> "range", start |-> nearest.sowing_date_start,
                end |-> nearest.sowing_date_end]

(***************************************************************************)
(* calculateFertilizerRecommendation                                       *)
(***************************************************************************)
\* a ?? b, for a value that is null or a number
OrElse(a, b) == IF a = Null THEN b ELSE a.v

\* a ?? b, kept as a JavaScript value
Coalesce(a, b) == IF a = Null THEN b ELSE a

\* ratio || fallback: a fraction of 0 is replaced
RatioOr(r, fallback) == IF r = 0 THEN fallback ELSE r

\* the soil record of the three branches: coordinates given, manual values
\* without coordinates, crop defaults
SoilBranch(inputParams, cropType, u) ==
    IF inputParams.lon # Null /\ inputParams.lat # Null
    THEN getSoilNutrientsWithCustom(inputParams.lon, inputParams.lat,
                                    inputParams.custom_soil_data, u)
    ELSE IF inputParams.custom_soil_data.present /\ inputParams.use_custom_soil
    THEN LET c == inputParams.custom_soil_data.v
             v == [N |-> Coalesce(c["N"], Num(8920)), P |-> Coalesce(c["P"], Num(2380)),
                   K |-> Coalesce(c["K"], Num(10500))]
         IN [soil |-> v,
             nutrient_levels |-> [x \in Nutrients |-> getNutrientLevel(v[x], LayerOf(x))],
             data_source |-> [x \in Nutrients |-> "manual"],
             is_default |-> TRUE,
             use_custom |-> TRUE]
    ELSE [soil |-> IF cropType = "rice"
                   THEN [N |-> Num(8920), P |-> Num(2383), K |-> Num(10500)]
                   ELSE [N |-> Num(8900), P |-> Num(2300), K |-> Num(9000)],
          nutrient_levels |-> [x \in Nutrients |-> "default"],
          data_source |-> [x \in Nutrients |-> "default"],
          is_default |-> TRUE,
          use_custom |-> FALSE]

\* the sowing date used: the request's, else the nearest feature's start,
\* else the crop's normal date of 2026
SowingDateUsed(inputParams, cropType, farming) ==
    LET hasCoords == inputParams.lon # Null /\ inputParams.lat # Null
        sdGeo == IF hasCoords
                 THEN getSowingDate(farming, inputParams.lon, inputParams.lat, cropType)
                 ELSE Null
    IN IF inputParams.sowing_date # Null THEN inputParams.sowing_date
       ELSE IF sdGeo # Null THEN sdGeo.start
       ELSE Date(2026, NormalSowingMonth(cropType), NormalSowingDay(cropType))

\* (req - soil - straw) / eff, clamped at 0
FertilizerNeed(req, soilSupply, strawSupply, eff) ==
    XMax0(XScale(XPlus(XScale(soilSupply, -1, 1), req - strawSupply), 1000, eff))

\* the rice plan with the tillering dressing given the base share
RiceProductsTillerAsBase(need, ratio, nAdditional) ==
    LET nBase == XPlus(XScale(need["N"], RatioOr(ratio.base, 50), 100), nAdditional)
        nTiller == XScale(need["N"], RatioOr(ratio.base, 50), 100)
        nPanicle == XScale(need["N"], RatioOr(ratio.late, 25), 100)
    IN [usage |-> [urea_base |-> XRoundTenth(XScale(nBase, 100, 46)),
                   urea_tiller |-> XRoundTenth(XScale(nTiller, 100, 46)),
                   urea_panicle |-> XRoundTenth(XScale(nPanicle, 100, 46)),
                   superphosphate_base |-> XRoundTenth(XScale(need["P"], 100, 12)),
                   kcl_base |-> XRoundTenth(XScale(XScale(need["K"], 6, 10), 100, 60)),
                   kcl_panicle |-> XRoundTenth(XScale(XScale(need["K"], 4, 10), 100, 60))],
        nutrient |-> [N_base |-> XRoundTenth(nBase),
                      N_tiller |-> XRoundTenth(nTiller),
                      N_panicle |-> XRoundTenth(nPanicle),
                      P2O5_total |-> XRoundTenth(need["P"]),
                      K2O_total |-> XRoundTenth(need["K"])],
        stages |-> [N_base |-> nBase, N_tiller |-> nTiller, N_panicle |-> nPanicle],
        unrounded |-> [N_base |-> XPlus(XScale(need["N"], RatioOr(ratio.base, 50), 1),
                                        nAdditional * 100),
                       N_tiller |-> XScale(need["N"], RatioOr(ratio.base, 50), 1),
                       N_panicle |-> XScale(need["N"], RatioOr(ratio.late, 25), 1),
                       KCl_base |-> XScale(need["K"], 6 * 100 * 3, 10 * 60),
                       KCl_panicle |-> XScale(need["K"], 4 * 100 * 3, 10 * 60)]]

\* unrounded holds the amounts before Math.round: N in units of 0.00001 kg,
\* potassium chloride in thirds of 0.001 kg
RiceProducts(need, ratio, nAdditional) ==
    LET nBase == XPlus(XScale(need["N"], RatioOr(ratio.base, 50), 100), nAdditional)
        nTiller == XScale(need["N"], RatioOr(ratio.mid, 25), 100)
        nPanicle == XScale(need["N"], RatioOr(ratio.late, 25), 100)
    IN [usage |-> [urea_base |-> XRoundTenth(XScale(nBase, 100, 46)),
                   urea_tiller |-> XRoundTenth(XScale(nTiller, 100, 46)),
                   urea_panicle |-> XRoundTenth(XScale(nPanicle, 100, 46)),
                   superphosphate_base |-> XRoundTenth(XScale(need["P"], 100, 12)),
                   kcl_base |-> XRoundTenth(XScale(XScale(need["K"], 6, 10), 100, 60)),
                   kcl_panicle |-> XRoundTenth(XScale(XScale(need["K"], 4, 10), 100, 60))],
        nutrient |-> [N_base |-> XRoundTenth(nBase),
                      N_tiller |-> XRoundTenth(nTiller),
                      N_panicle |-> XRoundTenth(nPanicle),
                      P2O5_total |-> XRoundTenth(need["P"]),
                      K2O_total |-> XRoundTenth(need["K"])],
        stages |-> [N_base |-> nBase, N_tiller |-> nTiller, N_panicle |-> nPanicle],
        unrounded |-> [N_base |-> XPlus(XScale(need["N"], RatioOr(ratio.base, 50), 1),
                                        nAdditional * 100),
                       N_tiller |-> XScale(need["N"], RatioOr(ratio.mid, 25), 1),
                       N_panicle |-> XScale(need["N"], RatioOr(ratio.late, 25), 1),
                       KCl_base |-> XScale(need["K"], 6 * 100 * 3, 10 * 60),
                       KCl_panicle |-> XScale(need["K"], 4 * 100 * 3, 10 * 60)]]

\* the wheat plan comes from the yield table, formula_ratio = [20, 15, 10]
WheatProducts(targetYield) ==
    LET t == getWheatFertilizerByYield(targetYield)
        formulaN == (t.formula * 20) \div 100
        formulaP == (t.formula * 15) \div 100
        formulaK == (t.formula * 10) \div 100
    IN [usage |-> [formula_base |-> XRoundTenth(Num(t.formula)),
                   urea_jointing |-> XRoundTenth(Num(t.urea)),
                   superphosphate_base |-> XRoundTenth(Num((formulaP * 100) \div 12)),
                   kcl_base |-> XRoundTenth(Num((formulaK * 100) \div 60))],
        nutrient |-> [N_base |-> XRoundTenth(Num(formulaN)),
                      N_jointing |-> XRoundTenth(Num((t.urea * 46) \div 100)),
                      P2O5_total |-> XRoundTenth(Num(formulaP)),
                      K2O_total |-> XRoundTenth(Num(formulaK))],
        stages |-> [N_base |-> Num(formulaN)],
        unrounded |-> [N_base |-> Num(formulaN * 100)]]

\* target_yield || 500
YieldUsed(target_yield) ==
    IF IsNum(target_yield) /\ target_yield.v # 0 THEN target_yield.v ELSE 5000

\* the effective fertilizer efficiencies: the nearest feature's, else the
\* crop default; the P efficiency is scaled by the pH impact
EfficiencyUsed(effGeo, cropType, soilPh) ==
    [x \in Nutrients |->
       ((IF effGeo[x] # Null THEN effGeo[x].v ELSE CropParams(cropType).efficiency[x])
        * (IF x = "P" THEN PhImpact(soilPh) ELSE 10)) \div 10]

\* steps 1 to 6: demand, soil supply, straw supply, efficiency, need
NutrientBalance(soil, targetYield, organicMatter, soilPh, strawAmount, strawType, effGeo, cropType) ==
    Bind([demand |-> calculateNutrientRequirement(targetYield, cropType),
          soil_supply |-> calculateSoilSupply(soil, organicMatter, soilPh, cropType),
          straw |-> calculateStrawSupply(strawAmount, strawType),
          efficiency |-> EfficiencyUsed(effGeo, cropType, soilPh)],
         LAMBDA b :
             [demand |-> b.demand,
              soil_supply |-> b.soil_supply,
              straw_supply |-> b.straw.supply,
              n_additional |-> b.straw.additional,
              efficiency |-> b.efficiency,
              need |-> [N |-> FertilizerNeed(b.demand["N"], b.soil_supply["N"],
                                             b.straw.supply["N"], b.efficiency["N"]),
                        P |-> FertilizerNeed(b.demand["P"], b.soil_supply["P"],
                                             b.straw.supply["P"], b.efficiency["P"]),
                        K |-> FertilizerNeed(b.demand["K"], b.soil_supply["K"],
                                             b.straw.supply["K"], b.efficiency["K"])]])

calculateFertilizerRecommendation(inputParams, cropType, strawSourceType, fertFeatures, farming, u) ==
    LET targetYield == YieldUsed(inputParams.target_yield)
        hasCoords == inputParams.lon # Null /\ inputParams.lat # Null
        organicMatter == OrElse(inputParams.organic_matter, 207)
        soilPh == OrElse(inputParams.soil_ph, 818)
        strawAmount == OrElse(inputParams.straw_return_amount,
                              IF cropType = "rice" THEN 600 ELSE 700)
        tempForecast == OrElse(inputParams.temperature_forecast,
                               IF cropType = "rice" THEN 225 ELSE 120)
        strawType == IF strawSourceType = ""
                     THEN (IF cropType = "rice" THEN "wheat" ELSE "rice")
                     ELSE strawSourceType
    IN
    Bind(SoilBranch(inputParams, cropType, u), LAMBDA soilData :
    Bind(IF hasCoords
         THEN getFertilizerEfficiency(fertFeatures, inputParams.lon, inputParams.lat,
                                      cropType)
         ELSE NoEfficiency, LAMBDA effGeo :
    Bind(NutrientBalance(soilData.soil, targetYield, organicMatter, soilPh, strawAmount,
                         strawType, effGeo, cropType), LAMBDA bal :
    Bind(SowingDateUsed(inputParams, cropType, farming), LAMBDA sowingDate :
    Bind(adjustFertilizerRatio(sowingDate, cropType, tempForecast), LAMBDA ratioParams :
    Bind(IF cropType = "rice"
         THEN RiceProducts(bal.need, ratioParams, bal.n_additional)
         ELSE WheatProducts(targetYield), LAMBDA plan :
        [usage |-> plan.usage,
         nutrient |-> plan.nutrient,
         stages |-> plan.stages,
         unrounded |-> plan.unrounded,
         ratio |-> ratioParams,
         target_yield |-> targetYield,
         demand |-> bal.demand,
         soil_supply |-> bal.soil_supply,
         straw_supply |-> bal.straw_supply,
         n_additional |-> bal.n_additional,
         need |-> bal.need,
         soil |-> soilData.soil,
         nutrient_levels |-> soilData.nutrient_levels,
         data_source |-> soilData.data_source,
         efficiency |-> bal.efficiency,
         efficiency_source |-> [x \in Nutrients |->
                                  IF effGeo[x] # Null THEN "regional" ELSE "default"],
         sowing_date |-> sowingDate,
         is_default |-> soilData.is_default,
         use_custom |-> soilData.use_custom,
         crop |-> cropType]))))))

(***************************************************************************)
(* Direct calls of the soil resolver and of the recommendation             *)
(***************************************************************************)
\* features as loadFertilizerGeoJSON and loadFarmingScheduleGeoJSON leave
\* them: coordinates in hundredths of a degree, efficiencies in thousandths,
\* null where the property had no number
LoadedFertilizerFeatures ==
    << [coords |-> <<11400, 3000>>, crop |-> "rice",
        eff |-> [N |-> Num(350), P |-> Null, K |-> Num(400)]],
       [coords |-> <<11800, 3200>>, crop |-> "wheat",
        eff |-> [N |-> Num(420), P |-> Num(200), K |-> Num(520)]],
       [coords |-> <<11200, 2900>>, crop |-> "rice",
        eff |-> [N |-> Null, P |-> Null, K |-> Null]] >>

LoadedFarmingFeatures ==
    << [coords |-> <<11400, 3000>>, crop |-> "rice",
        sowing_date_start |-> Date(2026, 6, 1), sowing_date_end |-> Date(2026, 6, 20)],
       [coords |-> <<11800, 3200>>, crop |-> "wheat",
        sowing_date_start |-> Null, sowing_date_end |-> Null] >>

\* the GeoJSON files are both missing or both present
FeatureChoices ==
    {[fertilizer |-> <<>>, farming |-> <<>>],
     [fertilizer |-> LoadedFertilizerFeatures, farming |-> LoadedFarmingFeatures]}

\* the Math.random() draws tried for each nutrient: the smallest and the largest
Jitters == [Nutrients -> {0, RandomScale - 1}]

\* manual soil values tried by the direct calls
CustomChoices ==
    {NoCustom} \cup
    {Custom(n, p, k) : n \in {Null, Num(20000)}, p \in {Null, Num(0)},
                       k \in {Null, Num(15000)}}

\* coordinates tried by the direct calls, in whole degrees
SoilPoints == {<<114, 30>>, <<114, 32>>, <<120, 29>>}

\* the target yield of the direct calls, in tenths of a kg
DirectYield == 5000

DefaultInputParams ==
    [target_yield |-> Num(DirectYield), sowing_date |-> Null,
     organic_matter |-> Null, soil_ph |-> Null, straw_return_amount |-> Null,
     temperature_forecast |-> Null]

SoilInputs ==
    [op : {"resolve"}, point : SoilPoints, custom : CustomChoices]
    \cup [op : {"recommend"}, point : SoilPoints \cup {<<>>},
          custom : {NoCustom, Custom(Num(20000), Null, Null),
                    Custom(Num(20000), Num(0), Num(15000))},
          use_custom_soil : BOOLEAN, cropType : Crops]

InitSoil ==
    /\ InitServer
    /\ disk \in [Layers -> DiskChoices]
    /\ \E f \in FeatureChoices :
         fertilizerFeatures = f.fertilizer /\ farmingFeatures = f.farming
    /\ db = EmptyDb
    /\ dataFile = StoredIn(db)
    /\ input \in SoilInputs

\* model.getSoilNutrientsWithCustom(lon, lat, customSoilData)
CallGetSoilNutrientsWithCustom ==
    /\ started
    /\ input.op = "resolve"
    /\ probe = NoProbe
    /\ \E u \in Jitters :
         LET lon == FromInt(input.point[1])
             lat == FromInt(input.point[2])
         IN probe' = [op |-> "resolve", lon |-> lon, lat |-> lat, u |-> u,
                      result |-> getSoilNutrientsWithCustom(lon, lat, input.custom, u)]
    /\ UNCHANGED <<disk, geotiffCache, started, input, fertilizerFeatures, farmingFeatures, db, dataFile, resp, now>>

\* the arguments of the direct call for the present input
DirectInputParams ==
    DefaultInputParams
    @@ [lon |-> IF input.point # <<>> THEN FromInt(input.point[1]) ELSE Null,
        lat |-> IF input.point # <<>> THEN FromInt(input.point[2]) ELSE Null,
        custom_soil_data |-> input.custom,
        use_custom_soil |-> input.use_custom_soil]

\* CallCalculateFertilizerRecommendation that takes the first feature out of
\* the fertilizer collection
CallCalculateFertilizerRecommendationConsuming ==
    /\ started
    /\ input.op = "recommend"
    /\ probe = NoProbe
    /\ \E u \in Jitters :
         probe' = [op |-> "recommend", hasCoords |-> input.point # <<>>, u |-> u,
                   result |-> calculateFertilizerRecommendation(
                                  DirectInputParams, input.cropType, "",
                                  fertilizerFeatures, farmingFeatures, u)]
    /\ fertilizerFeatures' = IF fertilizerFeatures = <<>> THEN <<>>
                             ELSE Tail(fertilizerFeatures)
    /\ UNCHANGED <<disk, geotiffCache, started, input, farmingFeatures, db, dataFile, resp, now>>

\* model.calculateFertilizerRecommendation(inputParams, cropType)
CallCalculateFertilizerRecommendation ==
    /\ started
    /\ input.op = "recommend"
    /\ probe = NoProbe
    /\ \E u \in Jitters :
         LET hasCoords == input.point # <<>>
             inputParams ==
                 DefaultInputParams
                 @@ [lon |-> IF hasCoords THEN FromInt(input.point[1]) ELSE Null,
                     lat |-> IF hasCoords THEN FromInt(input.point[2]) ELSE Null,
                     custom_soil_data |-> input.custom,
                     use_custom_soil |-> input.use_custom_soil]
         IN probe' = [op |-> "recommend", hasCoords |-> hasCoords, u |-> u,
                      result |-> calculateFertilizerRecommendation(
                                     inputParams, input.cropType, "",
                                     fertilizerFeatures, farmingFeatures, u)]
    /\ UNCHANGED <<disk, geotiffCache, started, input, fertilizerFeatures, farmingFeatures, db, dataFile, resp, now>>

NextSoil ==
    \/ loadGeoTIFFs
    \/ CallGetSoilNutrientsWithCustom
    \/ CallCalculateFertilizerRecommendation

SpecSoil == InitSoil /\ [][NextSoil]_vars

(***************************************************************************)
(* DatabaseManager (database_js.js)                                        *)
(***************************************************************************)
\* the index of the first session with this id, 0 if there is none
RECURSIVE FindSession(_, _, _)
FindSession(sessions, sessionId, i) ==
    IF i > Len(sessions) THEN 0
    ELSE IF sessions[i].id = sessionId THEN i
    ELSE FindSession(sessions, sessionId, i + 1)

updateUserSession(d, sessionId, clock) ==
    IF sessionId = "" THEN d
    ELSE LET i == FindSession(d.user_sessions, sessionId, 1) IN
         IF i > 0
         THEN [d EXCEPT !.user_sessions[i].calculation_count = @ + 1,
                        !.user_sessions[i].last_activity = clock]
         ELSE [d EXCEPT !.user_sessions =
                   Append(@, [id |-> sessionId, created_at |-> clock,
                              last_activity |-> clock, calculation_count |-> 1])]

\* the store after saveCalculation(data) at time clock; the record id
\* returned is d.nextId, and _scheduleSave leaves the timer set
saveCalculation(d, data, clock) ==
    [updateUserSession(
        [d EXCEPT !.calculations =
                      Append(@, [id |-> d.nextId,
                                 timestamp |-> clock,
                                 crop_type |-> data.crop_type,
                                 user_session |-> data.user_session,
                                 use_custom_soil |-> data.use_custom_soil,
                                 is_default_data |-> data.is_default_data]),
                  !.nextId = @ + 1],
        data.user_session, clock)
     EXCEPT !.saveTimer = TRUE]

\* the store after init(): no data file, or a file with one earlier record
StoredDb ==
    [calculations |-> << [id |-> 1, timestamp |-> 0, crop_type |-> "rice",
                          user_session |-> "s1",
                          use_custom_soil |-> FALSE, is_default_data |-> TRUE] >>,
     user_sessions |-> << [id |-> "s1", created_at |-> 0, last_activity |-> 0,
                           calculation_count |-> 1] >>,
     nextId |-> 2, saveTimer |-> FALSE]

DbChoices == {EmptyDb, StoredDb}

(***************************************************************************)
(* POST /calculate                                                         *)
(***************************************************************************)
\* a body value that is text without a leading number
Text == [k |-> "text"]

\* parseFloat of a body value that is a number, text, or missing
ParseFloat(v) == IF IsNum(v) THEN v ELSE NaN

\* data.custom_soil_data || {}, each value parsed, NaN replaced by null
ParseCustom(c) ==
    IF ~c.present THEN Custom(Null, Null, Null)
    ELSE [present |-> TRUE,
          v |-> [x \in Nutrients |->
                   IF c.v[x] = Null THEN Null
                   ELSE IF IsNum(ParseFloat(c.v[x])) THEN c.v[x] ELSE Null]]

\* the upper limits of the manual soil values, in hundredths of mg/kg
CustomMax(x) == CASE x = "N" -> 30000 [] x = "P" -> 10000 [] OTHER -> 50000

\* lon >= 110 && lon <= 122 && lat >= 28 && lat <= 33; false for NaN
InWindow(lon, lat) ==
    /\ lon # Null /\ lat # Null
    /\ ~FLt(lon, FromInt(ValidLonMin)) /\ ~FGt(lon, FromInt(ValidLonMax))
    /\ ~FLt(lat, FromInt(ValidLatMin)) /\ ~FGt(lat, FromInt(ValidLatMax))

\* the checks of the route in their order: "ok", or the check that rejected
ValidateCalculate(body) ==
    LET targetYield == ParseFloat(body.yield)
        customSoilData == ParseCustom(body.custom_soil_data)
    IN IF body.crop \notin Crops THEN "crop"
       ELSE IF body.yield = Null \/ body.yield = Num(0) THEN "yield_missing"
       ELSE IF body.date = Null /\ (body.lon = Null \/ body.lat = Null) THEN "date_or_coords"
       ELSE IF NumLt(targetYield, 1) \/ NumGt(targetYield, 10000) THEN "yield_range"
       ELSE IF ~InWindow(body.lon, body.lat) THEN "coords"
       ELSE IF \E x \in Nutrients :
                  /\ customSoilData.v[x] # Null
                  /\ (customSoilData.v[x].v < 0 \/ customSoilData.v[x].v > CustomMax(x))
            THEN "custom_soil"
       ELSE "ok"

\* params as built by the route
CalculateParams(body) ==
    [target_yield |-> ParseFloat(body.yield),
     sowing_date |-> body.date,
     lon |-> body.lon, lat |-> body.lat,
     organic_matter |-> Num(207), soil_ph |-> Num(818),
     straw_return_amount |-> Num(IF body.crop = "rice" THEN 600 ELSE 700),
     temperature_forecast |-> Num(IF body.crop = "rice" THEN 225 ELSE 120),
     custom_soil_data |-> IF body.use_custom_soil
                          THEN ParseCustom(body.custom_soil_data) ELSE NoCustom,
     use_custom_soil |-> body.use_custom_soil]

\* uuidv4(): an id no earlier session has
NewSession == "uuid"

\* the whole handler: the response, the store afterwards, and what the model
\* was called with and returned
HandleCalculate(body, cookie, u) ==
    LET error == ValidateCalculate(body) IN
    IF error # "ok"
    THEN [resp |-> [status |-> 400, error |-> error, set_cookie |-> ""],
          db |-> db,
          probe |-> [op |-> "calculate", called |-> FALSE]]
    ELSE LET userSession == IF cookie = "" THEN NewSession ELSE cookie IN
         Bind(calculateFertilizerRecommendation(
                  CalculateParams(body), body.crop,
                  IF body.crop = "rice" THEN "wheat" ELSE "rice",
                  fertilizerFeatures, farmingFeatures, u),
              LAMBDA rec :
                  [resp |-> [status |-> 200,
                             fertilizer_usage |-> rec.usage,
                             nutrient_usage |-> rec.nutrient,
                             record_id |-> db.nextId,
                             set_cookie |-> userSession],
                   db |-> saveCalculation(db, [crop_type |-> body.crop,
                                               user_session |-> userSession,
                                               use_custom_soil |-> body.use_custom_soil,
                                               is_default_data |-> rec.is_default],
                                          now),
                   probe |-> [op |-> "calculate", called |-> TRUE, u |-> u,
                              result |-> rec]])

\* request bodies tried.  crop "rice" and "wheat" stand for the two accepted
\* crop names, "maize" for any other text.  Yields are in tenths of a kg.
BodyYields == {Null, Text, Num(0), Num(5), Num(5000), Num(10010)}

BodyPoints ==
    {[lon |-> Null, lat |-> Null],
     [lon |-> FromInt(114), lat |-> FromInt(30)],
     [lon |-> FromInt(114), lat |-> FromInt(32)],
     [lon |-> FromInt(200), lat |-> FromInt(50)]}

BodyCustoms ==
    {NoCustom,
     Custom(Num(0), Null, Null),
     Custom(Num(20000), Num(10000), Null),
     Custom(Text, Null, Num(15000)),
     Custom(Num(30001), Null, Null),
     Custom(Null, Num(10001), Null),
     Custom(Null, Null, Num(-1))}

CalculateInputs ==
    {[op |-> "calculate", crop |-> c, yield |-> y, date |-> d,
      lon |-> pt.lon, lat |-> pt.lat,
      custom_soil_data |-> cs, use_custom_soil |-> uc] :
        c \in Crops \cup {"maize"}, y \in BodyYields,
        d \in {Null, Date(2026, 6, 30)}, pt \in BodyPoints,
        cs \in BodyCustoms, uc \in BOOLEAN}

\* files next to the server for the route: none at all, or the GeoJSON files
\* with the window-wide rasters or with the clipped rasters
RouteFiles ==
    {[disk |-> NoFiles, fertilizer |-> <<>>, farming |-> <<>>]}
    \cup {[disk |-> [l \in Layers |-> RasterFile(v)],
           fertilizer |-> LoadedFertilizerFeatures,
           farming |-> LoadedFarmingFeatures] : v \in FileVariants}

\* the Math.random() draws tried by the route: all smallest, all largest
RouteJitters == {[x \in Nutrients |-> j] : j \in {0, RandomScale - 1}}

\* the fertilizer_session cookie of the request: none, a known session, an
\* unknown one
Cookies == {"", "s1", "s2"}

InitCalculate ==
    /\ InitServer
    /\ \E f \in RouteFiles :
         /\ disk = f.disk
         /\ fertilizerFeatures = f.fertilizer
         /\ farmingFeatures = f.farming
    /\ db \in DbChoices
    /\ dataFile = StoredIn(db)
    /\ input \in CalculateInputs

\* app.post('/calculate'), with the fertilizer_session cookie of the request
PostCalculate ==
    /\ started
    /\ input.op = "calculate"
    /\ resp = NoResponse
    /\ \E cookie \in Cookies, u \in RouteJitters :
         \E out \in {HandleCalculate(input, cookie, u)} :
            /\ resp' = out.resp
            /\ db' = out.db
            /\ probe' = out.probe
    /\ UNCHANGED <<disk, geotiffCache, started, input, fertilizerFeatures, farmingFeatures, now, dataFile>>

NextCalculate == loadGeoTIFFs \/ PostCalculate

SpecCalculate == InitCalculate /\ [][NextCalculate]_vars

(***************************************************************************)
(* Weather: analyzeRainRisk and analyzeWeather.  Rain amounts are in       *)
(* tenths of a mm, probabilities in percent, temperatures in whole degrees *)
(* (tenths of a degree in the answers of the weather services).  A text is *)
(* a sequence of characters, so that includes() is a search.               *)
(***************************************************************************)
\* obj.f, undefined when the object has no such property
Field(obj, f) == IF f \in DOMAIN obj THEN obj[f] ELSE Undefined

\* parseFloat(x) || d and parseInt(x) || d: NaN and 0 both give d
OrDefault(x, d) == IF IsNum(x) /\ x.v # 0 THEN x.v ELSE d

\* parseInt of a property that is a whole number in decimal, another text, or
\* missing
ParseInt(v) == IF IsNum(v) THEN v ELSE NaN

\* x || d for a property that is a non-empty string when present
Present(x) == x.k \notin {"null", "undefined"}
Or(x, d) == IF Present(x) THEN x ELSE d

\* String.prototype.includes
Includes(s, kw) ==
    \E i \in 1..(Len(s) - Len(kw) + 1) : SubSeq(s, i, i + Len(kw) - 1) = kw

\* rainKeywords, in the order of Object.entries
rainKeywords ==
    << [kw |-> <<"bao", "yu">>, level |-> "high"],
       [kw |-> <<"da", "bao", "yu">>, level |-> "high"],
       [kw |-> <<"te", "da", "bao", "yu">>, level |-> "high"],
       [kw |-> <<"da", "yu">>, level |-> "high"],
       [kw |-> <<"zhong", "yu">>, level |-> "medium"],
       [kw |-> <<"xiao", "yu">>, level |-> "low"],
       [kw |-> <<"lei", "zhen", "yu">>, level |-> "medium"],
       [kw |-> <<"zhen", "yu">>, level |-> "low"],
       [kw |-> <<"dong", "yu">>, level |-> "high"],
       [kw |-> <<"yu", "jia", "xue">>, level |-> "medium"] >>

\* thresholds of analyzeRainRisk
HeavyRain == 100
ModerateRain == 50
LightRain == 1
HeavyForecastRain == 150
CurrentPopLimit == 70
TodayPopHigh == 80
TodayPopNotice == 60
LaterPopLimit == 70

RainStart == [level |-> "low", advice |-> "suitable", details |-> <<>>]

\* current rain amount
RainCurrentPrecip(result, currentPrecip) ==
    IF currentPrecip > HeavyRain
    THEN [level |-> "high", advice |-> "current-heavy",
          details |-> Append(result.details, "current-heavy")]
    ELSE IF currentPrecip > ModerateRain
    THEN [level |-> IF result.level # "high" THEN "medium" ELSE result.level,
          advice |-> "current-moderate",
          details |-> Append(result.details, "current-moderate")]
    ELSE IF currentPrecip > LightRain
    THEN [level |-> result.level, advice |-> "current-light",
          details |-> Append(result.details, "current-light")]
    ELSE result

\* RainCurrentPop that sets medium whatever level was reached
RainCurrentPopReplacing(result, currentPop) ==
    IF currentPop > CurrentPopLimit
    THEN [result EXCEPT !.level = "medium",
                        !.details = Append(@, "current-pop")]
    ELSE result

\* current rain probability
RainCurrentPop(result, currentPop) ==
    IF currentPop > CurrentPopLimit /\ result.level # "high"
    THEN [result EXCEPT !.level = "medium",
                        !.details = Append(@, "current-pop")]
    ELSE result

\* today's rain probability
RainTodayPop(result, todayPop) ==
    IF todayPop > TodayPopHigh
    THEN [level |-> IF result.level # "high" THEN "medium" ELSE result.level,
          advice |-> "today-pop",
          details |-> Append(result.details, "today-pop")]
    ELSE IF todayPop > TodayPopNotice
    THEN [result EXCEPT !.details = Append(@, "today-pop")]
    ELSE result

\* today's forecast amount
RainTodayPrecip(result, todayPrecip) ==
    IF todayPrecip > HeavyForecastRain
    THEN [level |-> "high", advice |-> "today-heavy",
          details |-> Append(result.details, "today-heavy")]
    ELSE result

\* tomorrow and the day after (i = 1, 2 in the code, i + 1 here)
RECURSIVE RainLaterDays(_, _, _)
RainLaterDays(result, dailyForecast, i) ==
    IF i > Len(dailyForecast) \/ i > 3 THEN result
    ELSE LET dayPop == OrDefault(ParseFloat(dailyForecast[i].pop), 0)
             next == IF dayPop > LaterPopLimit
                     THEN [level |-> result.level,
                           advice |-> IF result.level = "low" THEN "later-rain"
                                      ELSE result.advice,
                           details |-> Append(result.details, "later-pop")]
                     ELSE result
         IN RainLaterDays(next, dailyForecast, i + 1)

\* the first keyword the description includes, 0 when it includes none
RECURSIVE FirstKeyword(_, _)
FirstKeyword(weatherDesc, i) ==
    IF i > Len(rainKeywords) THEN 0
    ELSE IF Includes(weatherDesc, rainKeywords[i].kw) THEN i
    ELSE FirstKeyword(weatherDesc, i + 1)

RainKeyword(result, weatherDesc) ==
    LET i == FirstKeyword(weatherDesc, 1) IN
    IF i = 0 THEN result
    ELSE LET info == rainKeywords[i]
             noted == Append(result.details, "keyword")
         IN IF info.level = "high" /\ result.level # "high"
            THEN [level |-> "high", advice |-> "keyword-high", details |-> noted]
            ELSE IF info.level = "medium" /\ result.level = "low"
            THEN [level |-> "medium", advice |-> "keyword-medium", details |-> noted]
            ELSE [result EXCEPT !.details = noted]

\* the result after the checks on qweatherData.current
RainAfterCurrent(qweatherData) ==
    IF qweatherData # Null /\ "current" \in DOMAIN qweatherData
    THEN LET current == qweatherData.current
             currentPrecip == OrDefault(ParseFloat(Field(current, "precip")), 0)
             currentPop == OrDefault(ParseFloat(Field(current, "pop")), 0)
         IN RainCurrentPop(RainCurrentPrecip(RainStart, currentPrecip), currentPop)
    ELSE RainStart

\* the result after the checks on the daily forecast
RainAfterForecast(result, dailyForecast) ==
    IF Len(dailyForecast) > 0
    THEN LET today == dailyForecast[1]
             todayPop == OrDefault(ParseFloat(today.pop), 0)
             todayPrecip == OrDefault(ParseFloat(today.precip), 0)
         IN RainLaterDays(RainTodayPrecip(RainTodayPop(result, todayPop), todayPrecip),
                          dailyForecast, 2)
    ELSE result

analyzeRainRisk(weather, dailyForecast, qweatherData) ==
    RainKeyword(RainAfterForecast(RainAfterCurrent(qweatherData), dailyForecast),
                weather.weather_desc)

\* texts of the weather services, one string per character
Unknown == <<"wei", "zhi">>
Sunny == <<"qing">>
Cloudy == <<"duo", "yun">>
Overcast == <<"yin">>
LightRainText == <<"xiao", "yu">>
ModerateRainText == <<"zhong", "yu">>
HeavyRainText == <<"da", "yu">>
ThunderShower == <<"lei", "zhen", "yu">>

\* convertQWeatherCode, for the icon codes of the answers modelled
convertQWeatherCode(code) ==
    IF code = Num(100) THEN Sunny
    ELSE IF code = Num(104) THEN Overcast
    ELSE IF code = Num(302) THEN ThunderShower
    ELSE IF code = Num(305) THEN LightRainText
    ELSE IF code = Num(307) THEN HeavyRainText
    ELSE Unknown

\* convertWeatherCode, for the WMO codes of the answers modelled
convertWeatherCode(code) ==
    IF code \in {Num(0), Num(1)} THEN Sunny
    ELSE IF code = Num(3) THEN Overcast
    ELSE IF code \in {Num(51), Num(61)} THEN LightRainText
    ELSE IF code = Num(65) THEN HeavyRainText
    ELSE IF code = Num(95) THEN ThunderShower
    ELSE Unknown

\* defaults and thresholds of analyzeWeather
DefaultTemperature == 20
DefaultHumidity == 60
HotLimit == 35
WarmLimit == 30
ColdLimit == 5
CoolLimit == 10
HumidLimit == 85
DryLimit == 40
StrongWind == 5
NoticeableWind == 3
ForecastDays == 7

\* the answer when there is no weather data
NoWeatherAnalysis ==
    [suitable |-> TRUE, warning |-> Null, warnings |-> <<>>, alerts |-> <<>>,
     warning_level |-> "undefined", rain_risk |-> "low",
     temperature_risk |-> "undefined", daily_forecast |-> <<>>]

\* {} : a live record without properties
EmptyLive ==
    [weather |-> <<>>, temperature |-> Undefined, humidity |-> Undefined,
     windpower |-> Undefined]

\* if (warningLevel !== 'high') warningLevel = 'medium'
RaiseToMedium(warningLevel) == IF warningLevel # "high" THEN "medium" ELSE warningLevel

NoAlerts == [warnings |-> <<>>, alerts |-> <<>>, warningLevel |-> "low"]

Alert(type, level) == [type |-> type, level |-> level]

\* the daily forecast analyzeWeather builds from the casts, or from the
\* Open-Meteo answer when there are no casts
DailyForecastOf(weatherData) ==
    LET forecasts == weatherData.forecasts
        casts == IF Len(forecasts) > 0 THEN forecasts[1].casts ELSE <<>>
        kept == SubSeq(casts, 1, IF Len(casts) < ForecastDays THEN Len(casts) ELSE ForecastDays)
        fromCasts == [i \in 1..Len(kept) |->
                        [dayweather |-> kept[i].dayweather,
                         pop |-> Or(Field(kept[i], "pop"), Null),
                         precip |-> Or(Field(kept[i], "precip"), Null)]]
    IN IF Len(fromCasts) = 0 /\ "open_meteo_data" \in DOMAIN weatherData
       THEN LET daily == weatherData.open_meteo_data.daily
                n == IF Len(daily) < ForecastDays THEN Len(daily) ELSE ForecastDays
            IN [i \in 1..n |-> [dayweather |-> convertWeatherCode(daily[i].weather_code),
                                pop |-> Null, precip |-> Null]]
       ELSE fromCasts

RainAlerts(acc, rainAnalysis) ==
    IF rainAnalysis.level = "high"
    THEN [warnings |-> Append(acc.warnings, "rain-high"),
          alerts |-> Append(acc.alerts, Alert("rain", "high")),
          warningLevel |-> "high"]
    ELSE IF rainAnalysis.level = "medium"
    THEN [warnings |-> Append(acc.warnings, "rain-medium"),
          alerts |-> Append(acc.alerts, Alert("rain", "medium")),
          warningLevel |-> RaiseToMedium(acc.warningLevel)]
    ELSE IF Len(rainAnalysis.details) > 0
    THEN [acc EXCEPT !.alerts = Append(@, Alert("rain", "low"))]
    ELSE acc

HeatAlerts(acc, temp) ==
    IF temp > HotLimit
    THEN [warnings |-> Append(acc.warnings, "heat-high"),
          alerts |-> Append(acc.alerts, Alert("temperature", "high")),
          warningLevel |-> "high"]
    ELSE IF temp > WarmLimit
    THEN [warnings |-> Append(acc.warnings, "heat-medium"),
          alerts |-> Append(acc.alerts, Alert("temperature", "medium")),
          warningLevel |-> RaiseToMedium(acc.warningLevel)]
    ELSE acc

ColdAlerts(acc, temp) ==
    IF temp < ColdLimit
    THEN [warnings |-> Append(acc.warnings, "cold-high"),
          alerts |-> Append(acc.alerts, Alert("temperature", "high")),
          warningLevel |-> "high"]
    ELSE IF temp < CoolLimit
    THEN [warnings |-> Append(acc.warnings, "cold-medium"),
          alerts |-> Append(acc.alerts, Alert("temperature", "medium")),
          warningLevel |-> RaiseToMedium(acc.warningLevel)]
    ELSE acc

HumidityAlerts(acc, humidity) ==
    IF humidity > HumidLimit
    THEN [acc EXCEPT !.warnings = Append(@, "humid"),
                     !.alerts = Append(@, Alert("humidity", "medium"))]
    ELSE IF humidity < DryLimit
    THEN [acc EXCEPT !.warnings = Append(@, "dry"),
                     !.alerts = Append(@, Alert("humidity", "low"))]
    ELSE acc

WindAlerts(acc, windLevel) ==
    IF windLevel >= StrongWind
    THEN [warnings |-> Append(acc.warnings, "wind-high"),
          alerts |-> Append(acc.alerts, Alert("wind", "high")),
          warningLevel |-> "high"]
    ELSE IF windLevel >= NoticeableWind
    THEN [acc EXCEPT !.alerts = Append(@, Alert("wind", "low"))]
    ELSE acc

\* rainRisk and tempRisk: high, medium or low from the alerts of one type
RiskOf(alerts, type) ==
    IF \E i \in 1..Len(alerts) : alerts[i].type = type /\ alerts[i].level = "high"
    THEN "high"
    ELSE IF \E i \in 1..Len(alerts) : alerts[i].type = type THEN "medium"
    ELSE "low"

\* warnings.join, a text, or null when there is no warning
JoinWarnings(warnings) ==
    IF Len(warnings) > 0 THEN [k |-> "text", parts |-> warnings] ELSE Null

analyzeWeather(weatherData) ==
    IF weatherData = Null \/ "lives" \notin DOMAIN weatherData THEN NoWeatherAnalysis
    ELSE LET live == IF Len(weatherData.lives) > 0 THEN weatherData.lives[1] ELSE EmptyLive
             weather == IF live.weather = <<>> THEN Unknown ELSE live.weather
             temp == OrDefault(ParseInt(live.temperature), DefaultTemperature)
             humidity == OrDefault(ParseInt(live.humidity), DefaultHumidity)
             windPower == Or(live.windpower, Num(0))
             dailyForecast == DailyForecastOf(weatherData)
             rainAnalysis == analyzeRainRisk([weather_desc |-> weather], dailyForecast,
                                             IF "qweather_data" \in DOMAIN weatherData
                                             THEN weatherData.qweather_data ELSE Null)
             windLevel == OrDefault(ParseInt(windPower), 0)
             acc == WindAlerts(HumidityAlerts(ColdAlerts(HeatAlerts(
                        RainAlerts(NoAlerts, rainAnalysis), temp), temp), humidity),
                        windLevel)
         IN [suitable |-> Len(acc.warnings) = 0,
             warning |-> JoinWarnings(acc.warnings),
             warnings |-> acc.warnings, alerts |-> acc.alerts,
             warning_level |-> acc.warningLevel,
             current_weather |-> weather, temperature |-> temp, humidity |-> humidity,
             rain_risk |-> RiskOf(acc.alerts, "rain"),
             temperature_risk |-> RiskOf(acc.alerts, "temperature"),
             daily_forecast |-> dailyForecast]

(***************************************************************************)
(* Weather retrieval: getQWeatherForecast, getWeatherForecast,             *)
(* generateSimulatedWeather and getWeatherByCity.  The answer of a service *)
(* is an input; ok is false when the request failed or was refused.        *)
(***************************************************************************)
\* Math.round of a number given in tenths
RoundTenths(v) == (v + 5) \div 10

\* parseFloat(x) || null
ParseFloatOrNull(x) == IF IsNum(x) /\ x.v # 0 THEN x ELSE Null

\* the text of the answer, or the text of its icon code
TextOr(text, code) == IF text # <<>> THEN text ELSE convertQWeatherCode(code)

getQWeatherForecast(answer) ==
    IF ~answer.ok THEN [success |-> FALSE]
    ELSE [success |-> TRUE,
          current |-> [temperature |-> ParseFloatOrNull(answer.now.temp),
                       weather_desc |-> TextOr(answer.now.text, answer.now.icon),
                       humidity |-> answer.now.humidity,
                       wind_scale |-> answer.now.windScale],
          daily |-> [i \in 1..Len(answer.daily) |->
                       [max_temp |-> ParseFloatOrNull(answer.daily[i].tempMax),
                        weather_desc |-> TextOr(answer.daily[i].textDay,
                                                answer.daily[i].iconDay),
                        precip |-> answer.daily[i].precip,
                        pop |-> answer.daily[i].pop]]]

getWeatherForecast(answer) ==
    IF ~answer.ok THEN [success |-> FALSE]
    ELSE LET n == IF Len(answer.daily) < ForecastDays THEN Len(answer.daily)
                  ELSE ForecastDays
         IN [success |-> TRUE,
             current |-> [temperature |-> answer.current.temperature_2m,
                          weather_desc |-> convertWeatherCode(answer.current.weather_code)],
             daily |-> [i \in 1..n |->
                          [weather_desc |-> convertWeatherCode(answer.daily[i].weather_code)]],
             raw_data |-> [daily |-> answer.daily]]

\* conditions of generateSimulatedWeather
conditions == <<Sunny, Cloudy, Overcast, LightRainText, ModerateRainText>>

\* draws are the values of Math.floor(Math.random() * n) in the order taken
generateSimulatedWeather(draws) ==
    [lives |-> << [weather |-> conditions[draws.weather + 1],
                   temperature |-> Num(15 + draws.temp),
                   humidity |-> Num(40 + draws.humidity),
                   windpower |-> Num(draws.wind)] >>,
     forecasts |-> << [casts |-> << [dayweather |-> conditions[draws.weather + 1]] >>] >>]

\* String(Math.round(t)) of a temperature in tenths; the text NaN when t is
\* undefined
RoundedText(t) == IF IsNum(t) THEN Num(RoundTenths(t.v)) ELSE Text

getWeatherByCity(api) ==
    LET qResult == getQWeatherForecast(api.qweather)
        result == getWeatherForecast(api.openmeteo)
    IN IF qResult.success
       THEN [data |-> [lives |-> << [weather |-> qResult.current.weather_desc,
                                     temperature |-> Num(RoundTenths(
                                         OrDefault(qResult.current.temperature, 0))),
                                     humidity |-> Or(qResult.current.humidity, Text),
                                     windpower |-> Or(qResult.current.wind_scale, Num(0))] >>,
                       forecasts |-> << [casts |->
                           [i \in 1..Len(qResult.daily) |->
                              [dayweather |-> qResult.daily[i].weather_desc,
                               precip |-> qResult.daily[i].precip,
                               pop |-> qResult.daily[i].pop]]] >>,
                       qweather_data |-> qResult],
             is_simulated |-> FALSE, data_source |-> "QWeather"]
       ELSE IF result.success
       THEN [data |-> [lives |-> << [weather |-> result.current.weather_desc,
                                     temperature |-> RoundedText(result.current.temperature),
                                     humidity |-> Num(60),
                                     windpower |-> Num(0)] >>,
                       forecasts |-> << [casts |->
                           [i \in 1..Len(result.daily) |->
                              [dayweather |-> result.daily[i].weather_desc]]] >>,
                       open_meteo_data |-> result.raw_data],
             is_simulated |-> FALSE, data_source |-> "Open-Meteo"]
       ELSE [data |-> generateSimulatedWeather(api.draws),
             is_simulated |-> TRUE, data_source |-> "simulated"]

(***************************************************************************)
(* Growth stage and timing advice.  The crop "rice" stands for the name    *)
(* the code compares with; every other name takes the wheat branch.        *)
(***************************************************************************)
ClockEpochYear == 2024
QuartersPerDay == 4

RECURSIVE DaysBeforeYear(_)
DaysBeforeYear(y) ==
    IF y <= ClockEpochYear THEN 0
    ELSE DaysBeforeYear(y - 1) + (IF IsLeap(y - 1) THEN 366 ELSE 365)

\* getTime() of a date, in days since 1 January of ClockEpochYear
DayNumber(date) == DaysBeforeYear(date.y) + DayOfYear(date) - 1

\* Math.round((Date.now() - sowing.getTime()) / 86400000); NaN for Invalid Date
DaysSinceSowing(sowingDate, clock) ==
    IF ~sowingDate.valid THEN NaN
    ELSE Num((clock - QuartersPerDay * DayNumber(sowingDate) + QuartersPerDay \div 2)
             \div QuartersPerDay)

Stage(stage, description) == [stage |-> stage, description |-> description]

\* day thresholds and stages of the two crops, in the order tested
RiceStages ==
    << [below |-> 0, stage |-> Stage("pre-sowing", "not sown yet")],
       [below |-> 7, stage |-> Stage("sowing", "sowing to emergence")],
       [below |-> 21, stage |-> Stage("seedling", "seedling growth")],
       [below |-> 45, stage |-> Stage("tillering", "tillering")],
       [below |-> 65, stage |-> Stage("jointing", "stem elongation")],
       [below |-> 85, stage |-> Stage("booting", "panicle differentiation")],
       [below |-> 105, stage |-> Stage("heading", "heading and flowering")] >>

WheatStages ==
    << [below |-> 0, stage |-> Stage("pre-sowing", "not sown yet")],
       [below |-> 15, stage |-> Stage("sowing", "sowing and emergence")],
       [below |-> 60, stage |-> Stage("tillering", "tillering")],
       [below |-> 120, stage |-> Stage("overwintering", "winter dormancy")],
       [below |-> 150, stage |-> Stage("greenup", "spring green-up")],
       [below |-> 180, stage |-> Stage("jointing", "stem elongation")],
       [below |-> 210, stage |-> Stage("booting", "panicle differentiation")],
       [below |-> 240, stage |-> Stage("heading", "heading and flowering")] >>

Maturity == Stage("maturity", "grain filling and ripening")

\* StageOfDays that keeps the last stage whose test is true, not the first
RECURSIVE StageOfDaysLastMatch(_, _, _)
StageOfDaysLastMatch(table, days, i) ==
    IF i > Len(table) THEN Maturity
    ELSE LET rest == StageOfDaysLastMatch(table, days, i + 1)
         IN IF rest # Maturity THEN rest
            ELSE IF NumLt(days, table[i].below) THEN table[i].stage
            ELSE Maturity

\* the first stage whose test days < below is true; a test on NaN is false
RECURSIVE StageOfDays(_, _, _)
StageOfDays(table, days, i) ==
    IF i > Len(table) THEN Maturity
    ELSE IF NumLt(days, table[i].below) THEN table[i].stage
    ELSE StageOfDays(table, days, i + 1)

\* sowingDate is null when the request has none
calculateGrowthStage(cropType, sowingDate, clock) ==
    IF sowingDate = Null THEN Stage("sowing", "please provide the sowing date")
    ELSE StageOfDays(IF cropType = "rice" THEN RiceStages ELSE WheatStages,
                     DaysSinceSowing(sowingDate, clock), 1)

\* weather.warning.includes(word) for the two words the advice looks for:
\* no warning text holds the first, the two heat warnings hold the second
MentionsPrecipitation(warning) == FALSE
MentionsHeat(warning) ==
    \E i \in 1..Len(warning.parts) : warning.parts[i] \in {"heat-high", "heat-medium"}

\* best_timing, general_advice and can_fertilize of the stage
RiceStageAdvice(advice, stage) ==
    IF stage = "sowing"
    THEN [advice EXCEPT !.best_timing = Append(@, "base"),
                        !.general_advice = Append(@, "base 40-50%")]
    ELSE IF stage = "tillering"
    THEN [advice EXCEPT !.best_timing = Append(@, "tillering")]
    ELSE IF stage \in {"jointing", "booting"}
    THEN [advice EXCEPT !.best_timing = Append(@, "panicle")]
    ELSE IF stage = "maturity"
    THEN [advice EXCEPT !.can_fertilize = FALSE,
                        !.general_advice = Append(@, "mature")]
    ELSE advice

\* WheatStageAdvice without the overwintering branch
WheatStageAdviceNoWinter(advice, stage) ==
    IF stage = "sowing"
    THEN [advice EXCEPT !.best_timing = Append(@, "base"),
                        !.general_advice = Append(@, "base 60-70%")]
    ELSE IF stage = "greenup"
    THEN [advice EXCEPT !.best_timing = Append(@, "greenup")]
    ELSE IF stage = "jointing"
    THEN [advice EXCEPT !.best_timing = Append(@, "jointing")]
    ELSE IF stage = "maturity"
    THEN [advice EXCEPT !.can_fertilize = FALSE]
    ELSE advice

WheatStageAdvice(advice, stage) ==
    IF stage = "sowing"
    THEN [advice EXCEPT !.best_timing = Append(@, "base"),
                        !.general_advice = Append(@, "base 60-70%")]
    ELSE IF stage = "overwintering"
    THEN [advice EXCEPT !.can_fertilize = FALSE,
                        !.general_advice = Append(@, "winter")]
    ELSE IF stage = "greenup"
    THEN [advice EXCEPT !.best_timing = Append(@, "greenup")]
    ELSE IF stage = "jointing"
    THEN [advice EXCEPT !.best_timing = Append(@, "jointing")]
    ELSE IF stage = "maturity"
    THEN [advice EXCEPT !.can_fertilize = FALSE]
    ELSE advice

WeatherAdvice(advice, warning) ==
    IF warning = Null THEN advice
    ELSE [advice EXCEPT
            !.weather_warning = warning,
            !.general_advice =
                LET rain == IF MentionsPrecipitation(warning)
                            THEN Append(advice.general_advice, "deep placement")
                            ELSE advice.general_advice
                IN IF MentionsHeat(warning) THEN Append(rain, "evening") ELSE rain]

\* generateTimingAdvice that looks at the growth stage only
generateTimingAdviceAnyWeather(cropType, growthStage, weather) ==
    LET stage == growthStage.stage
        advice == [can_fertilize |-> stage \notin {"maturity", "harvest"},
                   best_timing |-> <<>>, general_advice |-> <<>>,
                   weather_warning |-> Undefined]
        staged == IF cropType = "rice" THEN RiceStageAdvice(advice, stage)
                  ELSE WheatStageAdvice(advice, stage)
    IN WeatherAdvice(staged, weather.warning)

generateTimingAdvice(cropType, growthStage, weather) ==
    LET stage == growthStage.stage
        suitable == weather.suitable # FALSE
        advice == [can_fertilize |-> suitable /\ stage \notin {"maturity", "harvest"},
                   best_timing |-> <<>>, general_advice |-> <<>>,
                   weather_warning |-> Undefined]
        staged == IF cropType = "rice" THEN RiceStageAdvice(advice, stage)
                  ELSE WheatStageAdvice(advice, stage)
    IN WeatherAdvice(staged, weather.warning)

(***************************************************************************)
(* Direct calls of analyzeWeather, and POST /api/fertilizer_timing         *)
(***************************************************************************)
\* snapshots handed to analyzeWeather
LiveTemperatures ==
    {Undefined, Text} \cup {Num(t) : t \in {-3, 0, 4, 5, 9, 10, 20, 30, 31, 35, 36}}
LiveHumidities == {Undefined, Num(39), Num(40), Num(85), Num(86)}
LiveWinds == {Undefined, Num(2), Num(3), Num(5)}
LiveTexts == {<<>>, Sunny, LightRainText, ModerateRainText, HeavyRainText}

Lives ==
    [weather : LiveTexts, temperature : LiveTemperatures, humidity : LiveHumidities,
     windpower : LiveWinds]

\* casts of the first forecast: none, a dry day, a day that may be wet, wet days
CastChoices ==
    { <<>>,
      << [dayweather |-> Sunny, pop |-> Num(10), precip |-> Num(0)] >>,
      << [dayweather |-> Cloudy, pop |-> Num(65), precip |-> Num(0)] >>,
      << [dayweather |-> Cloudy, pop |-> Num(90), precip |-> Num(30)],
         [dayweather |-> Cloudy, pop |-> Num(75), precip |-> Num(0)] >>,
      << [dayweather |-> Cloudy, pop |-> Num(20), precip |-> Num(160)] >> }

\* current conditions with a rain amount and a rain probability
CurrentChoices ==
    [precip : {Undefined, Num(1), Num(20), Num(60), Num(120)},
     pop : {Undefined, Num(80)}]

WeatherDataChoices ==
    {[lives |-> <<live>>, forecasts |-> << [casts |-> casts] >>] :
        live \in Lives, casts \in CastChoices}
    \cup {[lives |-> <<live>>, forecasts |-> <<>>,
           qweather_data |-> [success |-> TRUE, current |-> current]] :
            live \in {l \in Lives : l.humidity = Num(40) /\ l.windpower = Num(2)},
            current \in CurrentChoices}
    \cup {Null, [status |-> "0"], [lives |-> <<>>, forecasts |-> <<>>]}

AnalyzeInputs == [op : {"analyze"}, weatherData : WeatherDataChoices]

CallAnalyzeWeather ==
    /\ input.op = "analyze"
    /\ probe = NoProbe
    /\ probe' = [op |-> "analyze", result |-> analyzeWeather(input.weatherData)]
    /\ UNCHANGED <<disk, geotiffCache, started, input, fertilizerFeatures, farmingFeatures, db, dataFile, resp, now>>

\* answers of the weather services to the requests of getWeatherByCity
Failed == [ok |-> FALSE]

QWeatherNows ==
    [temp : {Undefined, Num(0), Num(33), Num(200), Num(384)},
     text : {Sunny, <<>>}, icon : {Num(305)},
     humidity : {Undefined, Num(60)}, windScale : {Num(1), Num(6)},
     precip : {Num(0), Num(120)}]

QWeatherDailies ==
    { <<>>,
      << [tempMax |-> Num(250), textDay |-> Sunny, iconDay |-> Num(100),
          precip |-> Num(0), pop |-> Num(10)] >> }

QWeatherAnswers == [ok : {TRUE}, now : QWeatherNows, daily : QWeatherDailies]

OpenMeteoAnswers ==
    [ok : {TRUE},
     current : [temperature_2m : {Undefined, Num(-25), Num(215)},
                weather_code : {Num(0), Num(65)}],
     daily : { <<>>, << [weather_code |-> Num(61)] >> }]

NoDraws == [weather |-> 0, temp |-> 0, humidity |-> 0, wind |-> 0]
Draws == [weather : {0, 4}, temp : {0, 19}, humidity : {0, 49}, wind : {0, 3}]

Apis ==
    {[qweather |-> q, openmeteo |-> Failed, draws |-> NoDraws] : q \in QWeatherAnswers}
    \cup {[qweather |-> Failed, openmeteo |-> o, draws |-> NoDraws] : o \in OpenMeteoAnswers}
    \cup {[qweather |-> Failed, openmeteo |-> Failed, draws |-> d] : d \in Draws}

\* the sowing date of the requests that have a valid one, and the days after
\* it on which they are made
TimingSowingDate == Date(2025, 6, 17)
TimingOffsets == {-1, 3, 10, 30, 50, 70, 100, 130, 160, 190, 220, 250}
ClockAt(date, offset) == QuartersPerDay * (DayNumber(date) + offset)

\* sowing_date of the body and the time of the request
TimingCases ==
    {[sowing_date |-> TimingSowingDate, clock |-> ClockAt(TimingSowingDate, d)] :
        d \in TimingOffsets}
    \cup {[sowing_date |-> d, clock |-> ClockAt(TimingSowingDate, 0)] :
            d \in {Null, InvalidDate}}

\* crop of the body: missing, the rice name, another name
TimingCrops == {"", "rice", "wheat"}

HandleFertilizerTiming(body, clock) ==
    LET cropType == IF body.crop = "" THEN "rice" ELSE body.crop
        weatherResult == getWeatherByCity(body.api)
        growthStage == calculateGrowthStage(cropType, body.sowing_date, clock)
        weatherAnalysis == analyzeWeather(weatherResult.data)
    IN [status |-> 200, success |-> TRUE,
        growth_stage |-> growthStage,
        weather |-> weatherAnalysis,
        timing_advice |-> generateTimingAdvice(cropType, growthStage, weatherAnalysis),
        is_simulated |-> weatherResult.is_simulated,
        data_source |-> weatherResult.data_source]

\* app.post('/api/fertilizer_timing')
PostFertilizerTiming ==
    /\ started
    /\ input.op = "timing"
    /\ resp = NoResponse
    /\ resp' = HandleFertilizerTiming(input, now)
    /\ UNCHANGED <<disk, geotiffCache, started, input, probe, fertilizerFeatures, farmingFeatures, db, dataFile, now>>

InitWeather ==
    /\ InitModule
    /\ InitNoData
    /\ disk = NoFiles
    /\ \/ input \in AnalyzeInputs /\ now = 0
       \/ \E c \in TimingCrops, t \in TimingCases, a \in Apis :
            /\ input = [op |-> "timing", crop |-> c, sowing_date |-> t.sowing_date,
                        api |-> a]
            /\ now = t.clock

NextWeather == loadGeoTIFFs \/ CallAnalyzeWeather \/ PostFertilizerTiming

SpecWeather == InitWeather /\ [][NextWeather]_vars


(***************************************************************************)
(* calculateGrowthStage from day to day, for one field                     *)
(***************************************************************************)
\* days before the sowing date at which the clock starts, and days after it
\* at which it stops
StageLead == 2
StageHorizon == 245

StageSowingDates == {Date(2024, 6, 17), Date(2025, 11, 1)}

StageInputs == [op : {"stage"}, cropType : Crops, sowingDate : StageSowingDates]

\* the clock starts at any time of the day
InitStage ==
    /\ InitModule
    /\ InitNoData
    /\ disk = NoFiles
    /\ input \in StageInputs
    /\ \E phase \in 0..(QuartersPerDay - 1) :
         now = ClockAt(input.sowingDate, -StageLead) + phase

\* 24 hours pass; what was computed belongs to the day before
DayPasses ==
    /\ input.op = "stage"
    /\ now < ClockAt(input.sowingDate, StageHorizon)
    /\ now' = now + QuartersPerDay
    /\ probe' = NoProbe
    /\ UNCHANGED <<disk, geotiffCache, started, input, fertilizerFeatures, farmingFeatures, db, dataFile, resp>>

CallCalculateGrowthStage ==
    /\ input.op = "stage"
    /\ probe = NoProbe
    /\ probe' = [op |-> "stage",
                 result |-> calculateGrowthStage(input.cropType, input.sowingDate, now)]
    /\ UNCHANGED <<disk, geotiffCache, started, input, fertilizerFeatures, farmingFeatures, db, dataFile, resp, now>>

NextStage == DayPasses \/ CallCalculateGrowthStage

SpecStage == InitStage /\ [][NextStage]_vars

(***************************************************************************)
(* The recommendation computed twice on the same request                   *)
(***************************************************************************)
RepeatInputs == {i \in SoilInputs : i.op = "recommend"}

InitRepeat ==
    /\ InitServer
    /\ \E f \in RouteFiles :
         /\ disk = f.disk
         /\ fertilizerFeatures = f.fertilizer
         /\ farmingFeatures = f.farming
    /\ db = EmptyDb
    /\ dataFile = StoredIn(db)
    /\ input \in RepeatInputs

\* a second model.calculateFertilizerRecommendation(inputParams, cropType)
\* with the same arguments and its own Math.random() draws
CallCalculateFertilizerRecommendationAgain ==
    /\ probe.op = "recommend"
    /\ "again" \notin DOMAIN probe
    /\ \E u \in Jitters :
         \E out \in {calculateFertilizerRecommendation(
                         DirectInputParams, input.cropType, "",
                         fertilizerFeatures, farmingFeatures, u)} :
            probe' = probe @@ [u2 |-> u, again |-> out]
    /\ UNCHANGED <<disk, geotiffCache, started, input, fertilizerFeatures, farmingFeatures, db, dataFile, resp, now>>

NextRepeat ==
    \/ loadGeoTIFFs
    \/ CallCalculateFertilizerRecommendation
    \/ CallCalculateFertilizerRecommendationAgain

SpecRepeat == InitRepeat /\ [][NextRepeat]_vars

(***************************************************************************)
(* Direct calls of getFertilizerEfficiency and getSowingDate               *)
(***************************************************************************)
\* features the GeoJSON loaders may leave: two rice features at the same
\* distance from one of the points, and features without a value
FertilizerFeaturePool ==
    { [coords |-> <<11400, 3000>>, crop |-> "rice",
       eff |-> [N |-> Num(350), P |-> Num(150), K |-> Num(401)]],
      [coords |-> <<11600, 3000>>, crop |-> "rice",
       eff |-> [N |-> Num(360), P |-> Null, K |-> Num(402)]],
      [coords |-> <<11500, 3100>>, crop |-> "wheat",
       eff |-> [N |-> Num(420), P |-> Num(200), K |-> Num(403)]],
      [coords |-> <<11500, 3000>>, crop |-> "rice",
       eff |-> [N |-> Null, P |-> Num(210), K |-> Num(404)]],
      [coords |-> <<11400, 3000>>, crop |-> "wheat",
       eff |-> [N |-> Null, P |-> Null, K |-> Null]] }

FarmingFeaturePool ==
    { [coords |-> <<11400, 3000>>, crop |-> "rice",
       sowing_date_start |-> Date(2026, 6, 1), sowing_date_end |-> Date(2026, 6, 20)],
      [coords |-> <<11600, 3000>>, crop |-> "rice",
       sowing_date_start |-> Date(2026, 6, 5), sowing_date_end |-> Date(2026, 6, 25)],
      [coords |-> <<11500, 3100>>, crop |-> "wheat",
       sowing_date_start |-> Date(2026, 10, 25), sowing_date_end |-> Date(2026, 11, 5)],
      [coords |-> <<11500, 3000>>, crop |-> "rice",
       sowing_date_start |-> Null, sowing_date_end |-> Null],
      [coords |-> <<11400, 3000>>, crop |-> "wheat",
       sowing_date_start |-> Null, sowing_date_end |-> Date(2026, 11, 9)] }

\* longest collection tried
MaxFeatures == 3

\* the collections of different features of a pool, in every order
Collections(pool) ==
    {c \in UNION {[1..n -> pool] : n \in 0..MaxFeatures} :
        \A i, j \in DOMAIN c : i # j => c[i] # c[j]}

\* query points in whole degrees, and query crops
NearestPoints == {<<114, 30>>, <<115, 30>>, <<117, 32>>}
NearestCrops == Crops \cup {"maize"}

NearestInputs ==
    [op : {"efficiency", "sowing"}, point : NearestPoints, cropType : NearestCrops]

InitNearest ==
    /\ InitServer
    /\ disk = NoFiles
    /\ db = EmptyDb
    /\ dataFile = StoredIn(db)
    /\ input \in NearestInputs
    /\ \/ /\ input.op = "efficiency"
          /\ fertilizerFeatures \in Collections(FertilizerFeaturePool)
          /\ farmingFeatures = <<>>
       \/ /\ input.op = "sowing"
          /\ fertilizerFeatures = <<>>
          /\ farmingFeatures \in Collections(FarmingFeaturePool)

\* model.getFertilizerEfficiency(lon, lat, cropType)
CallGetFertilizerEfficiency ==
    /\ input.op = "efficiency"
    /\ probe = NoProbe
    /\ probe' = [op |-> "efficiency",
                 result |-> getFertilizerEfficiency(fertilizerFeatures,
                                FromInt(input.point[1]), FromInt(input.point[2]),
                                input.cropType)]
    /\ UNCHANGED <<disk, geotiffCache, started, input, fertilizerFeatures, farmingFeatures, db, dataFile, resp, now>>

\* model.getSowingDate(lon, lat, cropType)
CallGetSowingDate ==
    /\ input.op = "sowing"
    /\ probe = NoProbe
    /\ probe' = [op |-> "sowing",
                 result |-> getSowingDate(farmingFeatures,
                                FromInt(input.point[1]), FromInt(input.point[2]),
                                input.cropType)]
    /\ UNCHANGED <<disk, geotiffCache, started, input, fertilizerFeatures, farmingFeatures, db, dataFile, resp, now>>

NextNearest == CallGetFertilizerEfficiency \/ CallGetSowingDate

SpecNearest == InitNearest /\ [][NextNearest]_vars

(***************************************************************************)
(* The simulated soil values on their own, and the resolver on points off  *)
(* the whole degrees                                                       *)
(***************************************************************************)
\* generateSimulatedNutrients(lon, lat): one entry per layer
generateSimulatedNutrients(lon, lat, u) ==
    LET dx == FToCenti(lon) - 11400
        dy == FToCenti(lat) - 3000
        AN == ClampTo(5000, 15000, 8920 + dx * 2 + dy * 3 + Rand(u["N"], -1000, 1000))
        AP == ClampTo(500, 4000, 2380 + dx \div 2 + (dy * 8) \div 10
                                 + Rand(u["P"], -500, 500))
        AK == ClampTo(6000, 20000, 10500 + (dx * 15) \div 10 + dy * 2
                                   + Rand(u["K"], -2000, 2000))
        makeEntry(val, layer) ==
            [value |-> Num(RoundToTenth(val)), layer |-> layer,
             nutrient_level |-> getNutrientLevel(Num(val), layer),
             data_source |-> "simulated", is_default |-> TRUE]
    IN [AN |-> makeEntry(AN, "AN"), AP |-> makeEntry(AP, "AP"),
        AK |-> makeEntry(AK, "AK")]

\* longitudes and latitudes tried, as numerator over a power of two: far
\* west and south of the reference point, around it, far east and north
SimulatedLons ==
    {FRound(84, 0, FALSE), FRound(100, 0, FALSE), FRound(114, 0, FALSE),
     FRound(229, -1, FALSE), FRound(128, 0, FALSE), FRound(144, 0, FALSE)}
SimulatedLats ==
    {FRound(5, 0, FALSE), FRound(15, 0, FALSE), FRound(30, 0, FALSE),
     FRound(121, -2, FALSE), FRound(45, 0, FALSE), FRound(55, 0, FALSE)}

\* every Math.random() draw for every nutrient
AllJitters == [Nutrients -> 0..(RandomScale - 1)]

\* the rasters next to the server: none, or the window-wide ones
SimulatedDisks == {NoFiles, [l \in Layers |-> RasterFile(1)]}

SimulatedInputs ==
    [op : {"simulate", "generate", "resolveAt"}, lon : SimulatedLons,
     lat : SimulatedLats, custom : {NoCustom, Custom(Num(8996), Null, Null)}]

InitSimulated ==
    /\ InitServer
    /\ InitNoData
    /\ disk \in SimulatedDisks
    /\ input \in SimulatedInputs

\* model.getSimulatedSoilNutrients(lon, lat)
CallGetSimulatedSoilNutrients ==
    /\ input.op = "simulate"
    /\ probe = NoProbe
    /\ \E u \in AllJitters :
         probe' = [op |-> "simulate", u |-> u,
                   result |-> getSimulatedSoilNutrients(input.lon, input.lat, u)]
    /\ UNCHANGED <<disk, geotiffCache, started, input, fertilizerFeatures, farmingFeatures, db, dataFile, resp, now>>

\* generateSimulatedNutrients(lon, lat)
CallGenerateSimulatedNutrients ==
    /\ input.op = "generate"
    /\ probe = NoProbe
    /\ \E u \in AllJitters :
         probe' = [op |-> "generate", u |-> u,
                   result |-> generateSimulatedNutrients(input.lon, input.lat, u)]
    /\ UNCHANGED <<disk, geotiffCache, started, input, fertilizerFeatures, farmingFeatures, db, dataFile, resp, now>>

\* model.getSoilNutrientsWithCustom(lon, lat, customSoilData) once the
\* rasters are loaded
CallGetSoilNutrientsWithCustomAt ==
    /\ started
    /\ input.op = "resolveAt"
    /\ probe = NoProbe
    /\ \E u \in AllJitters :
         probe' = [op |-> "resolveAt", u |-> u,
                   result |-> getSoilNutrientsWithCustom(input.lon, input.lat,
                                                         input.custom, u)]
    /\ UNCHANGED <<disk, geotiffCache, started, input, fertilizerFeatures, farmingFeatures, db, dataFile, resp, now>>

NextSimulated ==
    \/ loadGeoTIFFs
    \/ CallGetSimulatedSoilNutrients
    \/ CallGenerateSimulatedNutrients
    \/ CallGetSoilNutrientsWithCustomAt

SpecSimulated == InitSimulated /\ [][NextSimulated]_vars

(***************************************************************************)
(* analyzeRainRisk on its own, with the result after each of its checks    *)
(***************************************************************************)
\* the value of result after each check of analyzeRainRisk, in the order of
\* the code: start, current amount, current probability, today's
\* probability, today's amount, the next two days, the keyword
RainTrace(weather, dailyForecast, qweatherData) ==
    LET hasCurrent == qweatherData # Null /\ "current" \in DOMAIN qweatherData
        currentPrecip == IF hasCurrent
                         THEN OrDefault(ParseFloat(Field(qweatherData.current, "precip")), 0)
                         ELSE 0
        currentPop == IF hasCurrent
                      THEN OrDefault(ParseFloat(Field(qweatherData.current, "pop")), 0)
                      ELSE 0
        hasToday == Len(dailyForecast) > 0
        todayPop == IF hasToday THEN OrDefault(ParseFloat(dailyForecast[1].pop), 0) ELSE 0
        todayPrecip == IF hasToday THEN OrDefault(ParseFloat(dailyForecast[1].precip), 0)
                       ELSE 0
        r1 == IF hasCurrent THEN RainCurrentPrecip(RainStart, currentPrecip) ELSE RainStart
        r2 == IF hasCurrent THEN RainCurrentPop(r1, currentPop) ELSE r1
        r3 == IF hasToday THEN RainTodayPop(r2, todayPop) ELSE r2
        r4 == IF hasToday THEN RainTodayPrecip(r3, todayPrecip) ELSE r3
        r5 == IF hasToday THEN RainLaterDays(r4, dailyForecast, 2) ELSE r4
    IN <<RainStart, r1, r2, r3, r4, r5, RainKeyword(r5, weather.weather_desc)>>

\* descriptions: none, without a keyword, one keyword of each level, and
\* light rain turning into a thunder shower
RainTexts ==
    {<<>>, Sunny, LightRainText, ModerateRainText, HeavyRainText, ThunderShower,
     <<"xiao", "yu", "zhuan", "lei", "zhen", "yu">>}

\* daily forecasts: none, dry, likely wet, wet today and after, heavy today
RainForecasts ==
    { <<>>,
      << [pop |-> Num(10), precip |-> Num(0)] >>,
      << [pop |-> Num(65), precip |-> Null] >>,
      << [pop |-> Num(90), precip |-> Num(30)], [pop |-> Num(75), precip |-> Num(0)],
         [pop |-> Num(75), precip |-> Num(0)] >>,
      << [pop |-> Num(20), precip |-> Num(160)] >> }

RainInputs ==
    [op : {"rain"}, weather_desc : RainTexts, dailyForecast : RainForecasts,
     qweatherData : {Null} \cup {[success |-> TRUE, current |-> c] : c \in CurrentChoices}]

InitRain ==
    /\ InitServer
    /\ InitNoData
    /\ disk = NoFiles
    /\ input \in RainInputs

\* analyzeRainRisk(weather, dailyForecast, qweatherData)
CallAnalyzeRainRisk ==
    /\ input.op = "rain"
    /\ probe = NoProbe
    /\ probe' = [op |-> "rain",
                 result |-> analyzeRainRisk([weather_desc |-> input.weather_desc],
                                            input.dailyForecast, input.qweatherData),
                 trace |-> RainTrace([weather_desc |-> input.weather_desc],
                                     input.dailyForecast, input.qweatherData)]
    /\ UNCHANGED <<disk, geotiffCache, started, input, fertilizerFeatures, farmingFeatures, db, dataFile, resp, now>>

NextRain == CallAnalyzeRainRisk

SpecRain == InitRain /\ [][NextRain]_vars

(***************************************************************************)
(* The recommendation over sowing dates and forecast temperatures          *)
(***************************************************************************)
\* sowing dates of the request: none, text that is not a date, and dates
\* just inside and just outside a week around both normal dates
StagingDates ==
    {Null, InvalidDate, Date(2025, 6, 9), Date(2025, 6, 10), Date(2025, 6, 24),
     Date(2025, 6, 25), Date(2025, 10, 24), Date(2025, 11, 9)}

StagingInputs ==
    [op : {"staging"}, cropType : Crops, sowing_date : StagingDates,
     temperature_forecast : {Null} \cup {Num(t) : t \in Temperatures},
     straw_return_amount : {Null, Num(0), Num(100)},
     custom : {NoCustom, Custom(Num(3000), Num(800), Num(4000))}]

InitStaging ==
    /\ InitServer
    /\ InitNoData
    /\ disk = NoFiles
    /\ input \in StagingInputs

\* model.calculateFertilizerRecommendation(inputParams, cropType) without
\* coordinates
CallCalculateFertilizerRecommendationStaged ==
    /\ input.op = "staging"
    /\ probe = NoProbe
    /\ \E u \in RouteJitters :
         probe' = [op |-> "staging",
                   result |-> calculateFertilizerRecommendation(
                                  [target_yield |-> Num(DirectYield),
                                   sowing_date |-> input.sowing_date,
                                   organic_matter |-> Null, soil_ph |-> Null,
                                   straw_return_amount |-> input.straw_return_amount,
                                   temperature_forecast |-> input.temperature_forecast,
                                   lon |-> Null, lat |-> Null,
                                   custom_soil_data |-> input.custom,
                                   use_custom_soil |-> input.custom.present],
                                  input.cropType, "", fertilizerFeatures,
                                  farmingFeatures, u)]
    /\ UNCHANGED <<disk, geotiffCache, started, input, fertilizerFeatures, farmingFeatures, db, dataFile, resp, now>>

NextStaging == CallCalculateFertilizerRecommendationStaged

SpecStaging == InitStaging /\ [][NextStaging]_vars

(***************************************************************************)
(* The record store over restarts: init, saveCalculation, the save timer   *)
(* and cleanupOldData.  The clock counts quarters of a day.                *)
(***************************************************************************)
\* cleanupOldData(daysToKeep = 90)
DaysToKeep == 90

\* ids.length ? Math.max(...ids) + 1 : 1
RECURSIVE MaxId(_, _)
MaxId(calculations, i) ==
    IF i > Len(calculations) THEN 0
    ELSE LET rest == MaxId(calculations, i + 1)
         IN IF calculations[i].id > rest THEN calculations[i].id ELSE rest

\* new DatabaseManager() followed by init(): the data of the file, or the
\* empty store when there is no file
init(file) ==
    IF file.exists
    THEN [calculations |-> file.calculations,
          user_sessions |-> file.user_sessions,
          nextId |-> IF Len(file.calculations) > 0
                     THEN MaxId(file.calculations, 1) + 1 ELSE 1,
          saveTimer |-> FALSE]
    ELSE EmptyDb

\* Array.prototype.filter on the time of an entry
RECURSIVE KeepSince(_, _, _)
KeepSince(entries, TimeOf(_), cutoff) ==
    IF entries = <<>> THEN <<>>
    ELSE IF TimeOf(Head(entries)) >= cutoff
    THEN <<Head(entries)>> \o KeepSince(Tail(entries), TimeOf, cutoff)
    ELSE KeepSince(Tail(entries), TimeOf, cutoff)

\* the store after cleanupOldData() at time clock
cleanupOldData(d, clock) ==
    LET cutoff == clock - DaysToKeep * QuartersPerDay
        Timestamp(r) == r.timestamp
        LastActivity(s) == s.last_activity
    IN [d EXCEPT !.calculations = KeepSince(@, Timestamp, cutoff),
                 !.user_sessions = KeepSince(@, LastActivity, cutoff)]

\* the sessions of the requests, "" for a request without one
DbSessions == {"", "s1", "s2"}

\* calculations saved in one run of the model, and the time it covers: a
\* tick is half of the days kept
MaxSaves == 3
MaxTicks == 3
Tick == (DaysToKeep * QuartersPerDay) \div 2 + 1

\* what the callers of the store have seen: the ids saveCalculation
\* returned, and for each session the calculations saved with it since its
\* entry was pushed
NoCalls == [op |-> "db", returned |-> <<>>, saved |-> [s \in DbSessions |-> 0]]

InitDatabase ==
    /\ geotiffCache = [l \in Layers |-> NotLoaded]
    /\ started = FALSE
    /\ resp = NoResponse
    /\ disk = NoFiles
    /\ fertilizerFeatures = <<>>
    /\ farmingFeatures = <<>>
    /\ input = [op |-> "db"]
    /\ now = 0
    /\ db = EmptyDb
    /\ dataFile = StoredIn(db)
    /\ probe = NoCalls

\* db.saveCalculation(calcData)
SaveCalculation ==
    /\ input.op = "db"
    /\ probe.op = "db"
    /\ Len(probe.returned) < MaxSaves
    /\ \E s \in DbSessions :
         /\ db' = saveCalculation(db, [crop_type |-> "rice", user_session |-> s,
                                       use_custom_soil |-> FALSE,
                                       is_default_data |-> TRUE], now)
         /\ probe' = [probe EXCEPT
                        !.returned = Append(@, db.nextId),
                        !.saved[s] = IF FindSession(db.user_sessions, s, 1) > 0
                                     THEN @ + 1 ELSE 1]
    /\ UNCHANGED <<disk, geotiffCache, started, input, fertilizerFeatures, farmingFeatures, dataFile, resp, now>>

\* the timer of _scheduleSave: _save()
SaveTimerFires ==
    /\ input.op = "db"
    /\ db.saveTimer
    /\ dataFile' = StoredIn(db)
    /\ db' = [db EXCEPT !.saveTimer = FALSE]
    /\ UNCHANGED <<disk, geotiffCache, started, input, probe, fertilizerFeatures, farmingFeatures, resp, now>>

\* db.cleanupOldData(): the file is written at once when a calculation was
\* deleted
CleanupOldData ==
    /\ input.op = "db"
    /\ db' = cleanupOldData(db, now)
    /\ dataFile' = IF Len(db'.calculations) < Len(db.calculations)
                   THEN StoredIn(db') ELSE dataFile
    /\ UNCHANGED <<disk, geotiffCache, started, input, probe, fertilizerFeatures, farmingFeatures, resp, now>>

\* the process ends with no save pending, and the module is loaded again:
\* new DatabaseManager(), db.init()
Restart ==
    /\ input.op = "db"
    /\ ~db.saveTimer
    /\ db' = init(dataFile)
    /\ UNCHANGED <<disk, geotiffCache, started, input, probe, fertilizerFeatures, farmingFeatures, dataFile, resp, now>>

\* Date.now() moves on
TimePasses ==
    /\ input.op = "db"
    /\ now < MaxTicks * Tick
    /\ now' = now + Tick
    /\ UNCHANGED <<disk, geotiffCache, started, input, probe, fertilizerFeatures, farmingFeatures, db, dataFile, resp>>

NextDatabase ==
    \/ SaveCalculation
    \/ SaveTimerFires
    \/ CleanupOldData
    \/ Restart
    \/ TimePasses

SpecDatabase == InitDatabase /\ [][NextDatabase]_vars

(***************************************************************************)
(* Claims                                                                  *)
(***************************************************************************)
ProbedLayer == geotiffCache[input.layer]

OutsideBBox(cache, lon, lat) ==
    \/ FLt(lon, cache.minX) \/ FGt(lon, cache.maxX)
    \/ FLt(lat, cache.minY) \/ FGt(lat, cache.maxY)

\* the raster sample of nutrient x at the probed point, null when NoData,
\* out of bounds or not loaded
RasterSampleOf(x) == extractValueFromGeoTIFF(probe.lon, probe.lat, LayerOf(x))

ManualGiven(custom, x) == custom.present /\ custom.v[x] # Null

\* the manual values of custom with those of the nutrients other than x
\* replaced by val
OthersSetTo(custom, x, val) ==
    [present |-> TRUE,
     v |-> [y \in Nutrients |->
              IF y # x THEN val
              ELSE IF custom.present THEN custom.v[y] ELSE Null]]

\* C3: the soil record is resolved per nutrient with the precedence manual
\* value, then raster sample that is not NoData, then simulated value, each
\* with its own source; and the value and source of a nutrient do not depend
\* on what was supplied for the other nutrients.
C3_ThreeTierPrecedence ==
    probe.op = "resolve" =>
        \A x \in Nutrients :
            /\ IF ManualGiven(input.custom, x)
               THEN /\ probe.result.soil[x] = input.custom.v[x]
                    /\ probe.result.data_source[x] = "manual"
               ELSE IF RasterSampleOf(x) # Null
               THEN /\ probe.result.soil[x] = DecodeRaster(RasterSampleOf(x), LayerOf(x))
                    /\ probe.result.data_source[x] = "GeoTIFF"
               ELSE /\ probe.result.soil[x]
                         = getSimulatedSoilNutrients(probe.lon, probe.lat, probe.u).soil[x]
                    /\ probe.result.data_source[x] = "simulated"
            /\ \A other \in {OthersSetTo(input.custom, x, Null),
                              OthersSetTo(input.custom, x, Num(7700))} :
                 LET r == getSoilNutrientsWithCustom(probe.lon, probe.lat, other,
                                                     probe.u)
                 IN /\ r.soil[x] = probe.result.soil[x]
                    /\ r.data_source[x] = probe.result.data_source[x]

\* one record with all three tiers: N typed in, P read from the raster, K
\* simulated because its layer has no sample there
C3_Witness ==
    /\ probe.op = "resolve"
    /\ probe.result.soil["N"] = Num(20000)
    /\ probe.result.data_source
         = [N |-> "manual", P |-> "GeoTIFF", K |-> "simulated"]
    /\ RasterSampleOf("N") # Null

\* C4: is_default is true exactly when every nutrient's source is simulated
\* or default, in the resolver and in the branches without coordinates.
C4_IsDefaultIffNoRealSource ==
    probe.op \in {"resolve", "recommend"} =>
        (probe.result.is_default
           <=> \A x \in Nutrients :
                 probe.result.data_source[x] \in {"simulated", "default"})

\* C8: with coordinates, whatever rasters and features are available, every
\* nutrient has a numeric soil value and a source, and every nutrient has a
\* positive fertilizer efficiency: the nearest feature's where it has one,
\* else the crop default.
C8_AlwaysUsableResult ==
    (probe.op = "recommend" /\ probe.hasCoords) =>
        \A x \in Nutrients :
            /\ probe.result.soil[x] # Null
            /\ IsNum(probe.result.soil[x])
            /\ probe.result.data_source[x] \in {"manual", "GeoTIFF", "simulated"}
            /\ probe.result.efficiency[x] > 0
            /\ probe.result.efficiency_source[x] \in {"regional", "default"}
            /\ fertilizerFeatures = <<>> => probe.result.efficiency_source[x] = "default"
            /\ probe.result.efficiency_source[x] = "default" =>
                 probe.result.efficiency[x]
                   = IF x = "P"
                     THEN (CropParams(input.cropType).efficiency[x] * PhImpact(818)) \div 10
                     ELSE CropParams(input.cropType).efficiency[x]

\* no raster, no feature file: all three nutrients simulated, all three
\* efficiencies the crop defaults
C8_Witness ==
    /\ probe.op = "recommend"
    /\ probe.hasCoords
    /\ \A l \in Layers : ~geotiffCache[l].loaded
    /\ fertilizerFeatures = <<>>
    /\ \A x \in Nutrients :
         /\ probe.result.data_source[x] = "simulated"
         /\ IsNum(probe.result.soil[x])
         /\ probe.result.efficiency_source[x] = "default"

\* the recommendation for the probed inputs with the manual soil values
\* replaced by custom
RecommendationWith(custom) ==
    calculateFertilizerRecommendation(
        DefaultInputParams
        @@ [lon |-> Null, lat |-> Null, custom_soil_data |-> custom,
            use_custom_soil |-> custom.present],
        input.cropType, "", fertilizerFeatures, farmingFeatures, probe.u)

\* the nitrogen recommended for wheat, base plus jointing, in tenths of a kg
WheatNitrogen(rec) == rec.nutrient.N_base.v + rec.nutrient.N_jointing.v

\* C11: for wheat without coordinates and a manual soil N of 200, the soil N
\* used is 200 with source manual, and the nitrogen recommended is strictly
\* lower than for the default soil at the same target yield.
C11_ManualNitrogenLowersWheatN ==
    (/\ probe.op = "recommend"
     /\ ~probe.hasCoords
     /\ input.cropType = "wheat"
     /\ input.use_custom_soil
     /\ input.custom = Custom(Num(20000), Null, Null)) =>
        /\ probe.result.soil["N"] = Num(20000)
        /\ probe.result.data_source["N"] = "manual"
        /\ WheatNitrogen(probe.result) < WheatNitrogen(RecommendationWith(NoCustom))
\* the worst level among the alerts that satisfy Pick
WorstLevel(alerts, Pick(_)) ==
    IF \E i \in 1..Len(alerts) : Pick(alerts[i]) /\ alerts[i].level = "high" THEN "high"
    ELSE IF \E i \in 1..Len(alerts) : Pick(alerts[i]) /\ alerts[i].level = "medium"
    THEN "medium"
    ELSE "low"

AnyAlert(a) == TRUE

\* analyzeWeather was called with weather data that has current conditions
Analyzed == probe.op = "analyze" /\ probe.result.warning_level # "undefined"

\* C12: the overall level analyzeWeather returns is the worst level among the
\* factors that triggered (rain, temperature, humidity, wind): high when one
\* of them is high, otherwise medium when one is medium, otherwise low.
C12_OverallLevelIsMaximum ==
    Analyzed => probe.result.warning_level = WorstLevel(probe.result.alerts, AnyAlert)


\* the timing request was answered from current conditions delivered by the
\* first weather service
AnsweredFromQWeather ==
    input.op = "timing" /\ resp # NoResponse /\ input.api.qweather.ok

\* C13: when the current conditions report more than 10 mm of rain, the
\* analysis of the weather data the retrieval delivers has rain risk high,
\* overall level high and an alert of type rain and level high.
C13_HeavyCurrentRainIsHigh ==
    (AnsweredFromQWeather /\ NumGt(input.api.qweather.now.precip, HeavyRain)) =>
        /\ resp.weather.rain_risk = "high"
        /\ resp.weather.warning_level = "high"
        /\ \E i \in 1..Len(resp.weather.alerts) :
              resp.weather.alerts[i] = Alert("rain", "high")

\* the current temperature of the snapshot analyzeWeather was called with
SnapshotTemperature == input.weatherData.lives[1].temperature

TemperatureAlert(a) == a.type = "temperature"

TemperatureAlerts(alerts) == SelectSeq(alerts, TemperatureAlert)

\* analyzeWeather was called with a snapshot whose temperature is a number
AnalyzedTemperature ==
    /\ Analyzed
    /\ Len(input.weatherData.lives) > 0
    /\ IsNum(SnapshotTemperature)

\* what the thresholds give for a temperature of t degrees
ExpectedTemperatureAlerts(t) ==
    IF t > HotLimit \/ t < ColdLimit THEN << Alert("temperature", "high") >>
    ELSE IF t > WarmLimit \/ t < CoolLimit THEN << Alert("temperature", "medium") >>
    ELSE << >>

\* C14: for every current temperature T, T > 35 or T < 5 (T = 0 and negative
\* values included) gives a temperature alert of level high and overall level
\* high, 30 < T <= 35 or 5 <= T < 10 gives a temperature alert of level
\* medium, and any other T gives no temperature alert.
C14_TemperatureAlertByThreshold ==
    AnalyzedTemperature =>
        /\ TemperatureAlerts(probe.result.alerts)
             = ExpectedTemperatureAlerts(SnapshotTemperature.v)
        /\ (SnapshotTemperature.v > HotLimit \/ SnapshotTemperature.v < ColdLimit)
             => probe.result.warning_level = "high"

RainAlert(a) == a.type = "rain"

\* C15: rain_risk is the worst level among the alerts of type rain (low when
\* the worst one is low or there is none), and temperature_risk is the worst
\* level among the alerts of type temperature.
C15_RiskIsWorstAlertLevel ==
    Analyzed =>
        /\ probe.result.rain_risk = WorstLevel(probe.result.alerts, RainAlert)
        /\ probe.result.temperature_risk
             = WorstLevel(probe.result.alerts, TemperatureAlert)

\* POST /api/fertilizer_timing was answered
TimingAnswered == input.op = "timing" /\ resp # NoResponse

\* the crop the timing request is answered for
TimingCrop == IF input.crop = "" THEN "rice" ELSE input.crop

\* C16: can_fertilize is true exactly when the weather analysis is suitable,
\* the growth stage is not maturity and, for wheat, not overwintering.
C16_CanFertilizeExactlyWhen ==
    TimingAnswered =>
        (resp.timing_advice.can_fertilize <=>
            /\ resp.weather.suitable
            /\ resp.growth_stage.stage # "maturity"
            /\ ~(TimingCrop # "rice" /\ resp.growth_stage.stage = "overwintering"))

\* wheat in winter dormancy under suitable weather: no fertilization
C16_Witness ==
    /\ TimingAnswered
    /\ TimingCrop = "wheat"
    /\ resp.growth_stage.stage = "overwintering"
    /\ resp.weather.suitable
    /\ ~resp.timing_advice.can_fertilize

\* the stages in the order of the season, and the day counts at which the
\* next one begins
RiceOrder ==
    <<"pre-sowing", "sowing", "seedling", "tillering", "jointing", "booting",
      "heading", "maturity">>
WheatOrder ==
    <<"pre-sowing", "sowing", "tillering", "overwintering", "greenup", "jointing",
      "booting", "heading", "maturity">>
RiceStarts == <<0, 7, 21, 45, 65, 85, 105>>
WheatStarts == <<0, 15, 60, 120, 150, 180, 210, 240>>

StageOrder == IF input.cropType = "rice" THEN RiceOrder ELSE WheatOrder
StageStarts == IF input.cropType = "rice" THEN RiceStarts ELSE WheatStarts

\* position in StageOrder of the stage of a day count: one more than the
\* number of stages that have begun
StagePosition(days) ==
    1 + Cardinality({i \in 1..Len(StageStarts) : StageStarts[i] <= days})

\* the stage of the field at the present time, and its position
StageNow == calculateGrowthStage(input.cropType, input.sowingDate, now).stage
PositionNow == CHOOSE i \in 1..Len(StageOrder) : StageOrder[i] = StageNow

\* C17: the growth stage is the stage the fixed day thresholds give for
\* daysSinceSowing, every day count has exactly one stage, and from one day to
\* the next the stage stays or moves to the next stage of the list: no stage
\* is skipped, none is entered again, and maturity is never left.
C17_StagesInOrder ==
    /\ [](probe.op = "stage" =>
            /\ probe.result.stage = StageNow
            /\ Cardinality({i \in 1..Len(StageOrder) : StageOrder[i] = StageNow}) = 1
            /\ StageNow = StageOrder[StagePosition(DaysSinceSowing(input.sowingDate, now).v)])
    /\ [][(input.op = "stage" /\ now' = now + QuartersPerDay) =>
            /\ PositionNow' \in {PositionNow, PositionNow + 1}
            /\ (StageNow = "maturity" => StageNow' = "maturity")]_vars

\* a wheat field followed from before sowing into maturity
C17_Witness ==
    /\ probe.op = "stage"
    /\ input.cropType = "wheat"
    /\ probe.result.stage = "maturity"
    /\ now >= ClockAt(input.sowingDate, 240)

\* C18: without a sowing date the timing request is answered, the stage
\* reported is pre-sowing or unknown and not a stage of the season, its
\* description asks for the date, and no advice keyed to a stage is attached.
C18_MissingSowingDateIsNoStage ==
    (TimingAnswered /\ input.sowing_date = Null) =>
        /\ resp.status = 200
        /\ resp.growth_stage.stage \in {"pre-sowing", "unknown"}
        /\ resp.growth_stage.description = "please provide the sowing date"
        /\ resp.timing_advice.best_timing = << >>

\* the recommendation was computed twice
ComputedTwice == probe.op = "recommend" /\ "again" \in DOMAIN probe

Searched == IF probe.op = "efficiency" THEN fertilizerFeatures ELSE farmingFeatures
AnswerOf(f) ==
    IF probe.op = "efficiency" THEN f.eff
    ELSE [k |-> "range", start |-> f.sowing_date_start, end |-> f.sowing_date_end]
NoAnswer == IF probe.op = "efficiency" THEN NoEfficiency ELSE Null

\* a feature that carries the value looked up
HasValue(f) ==
    IF probe.op = "efficiency" THEN f.eff["N"] # Null ELSE f.sowing_date_start # Null

\* squared Euclidean distance of a feature to the query point, in hundredths
\* of a degree
SquaredDistance(f) ==
    (f.coords[1] - 100 * input.point[1]) * (f.coords[1] - 100 * input.point[1])
    + (f.coords[2] - 100 * input.point[2]) * (f.coords[2] - 100 * input.point[2])

\* positions of the candidates among the positions in from: those of the
\* query crop, or all of them when there is none
CandidatesIn(from) ==
    LET matching == {i \in from : Searched[i].crop = input.cropType}
    IN IF matching # {} THEN matching ELSE from

\* the candidates at the minimum distance
NearestIn(cands) ==
    {i \in cands : \A j \in cands :
        SquaredDistance(Searched[i]) <= SquaredDistance(Searched[j])}

\* the lookup answers null when there is no candidate, and otherwise with the
\* first of the nearest candidates
AnswersFrom(cands) ==
    IF cands = {} THEN probe.result = NoAnswer
    ELSE probe.result = AnswerOf(Searched[CHOOSE i \in NearestIn(cands) :
                                            \A j \in NearestIn(cands) : i <= j])

LookedUp == probe.op \in {"efficiency", "sowing"}

\* C20 as stated: the candidates are the features of the query crop, or all
\* features when no feature has that crop; the lookup is null only without
\* any candidate, and otherwise answers with the candidate nearest in squared
\* Euclidean distance, the first in collection order among equally near ones.
C20_NearestFeature ==
    LookedUp => AnswersFrom(CandidatesIn(DOMAIN Searched))

\* C20 amended: the same, among the features that carry the value looked up
\* (an N efficiency, a sowing start date).
C20_NearestFeatureWithValue ==
    LookedUp => AnswersFrom(CandidatesIn({i \in DOMAIN Searched : HasValue(Searched[i])}))

\* two candidates of the query crop at the same smallest distance, and a
\* nearer feature of that crop without an N efficiency
C20_Witness ==
    /\ probe.op = "efficiency"
    /\ probe.result # NoEfficiency
    /\ Cardinality(NearestIn(CandidatesIn(
           {i \in DOMAIN Searched : HasValue(Searched[i])}))) = 2
    /\ \E i \in DOMAIN Searched :
          /\ ~HasValue(Searched[i])
          /\ Searched[i].crop = input.cropType
          /\ SquaredDistance(Searched[i]) = 0

\* the call of adjustFertilizerRatio was for a crop and a date that parse
RatioOfDate == probe.op = "ratio" /\ input.cropType \in Crops /\ input.sowingDate.valid

\* the cold threshold of the crop, and whether the forecast is below it
ColdThreshold == IF input.cropType = "rice" THEN RiceColdTemp ELSE WheatColdTemp
ColdForecast == input.tempForecast < ColdThreshold

\* sowing date minus the normal sowing date of the same year, in days
DaysFromNormal ==
    DayNumber(input.sowingDate)
    - DayNumber(Date(input.sowingDate.y, NormalSowingMonth(input.cropType),
                     NormalSowingDay(input.cropType)))

\* the fractions of the three regimes
RegimeRatios ==
    IF DaysFromNormal < -7
    THEN IF input.cropType = "rice" THEN Ratios(40, 25, 35) ELSE Ratios(60, 25, 15)
    ELSE IF DaysFromNormal <= 7
    THEN IF input.cropType = "rice" THEN Ratios(50, 25, 25) ELSE Ratios(65, 25, 10)
    ELSE IF input.cropType = "rice" THEN Ratios(55, 30, 15) ELSE Ratios(70, 20, 10)

C22_ColdShiftsLateToBase ==
    (probe.op = "ratio" /\ input.cropType \in Crops /\ ColdForecast) =>
        \A warm \in {t \in Temperatures : t >= ColdThreshold} :
            LET other == adjustFertilizerRatio(input.sowingDate, input.cropType, warm)
            IN /\ probe.result.late = other.late - 5
               /\ probe.result.base = other.base + 5
               /\ probe.result.mid = other.mid
               /\ RiceColdTemp = 200 /\ WheatColdTemp = 100

\* wheat sown more than a week early under a cold forecast
C22_Witness ==
    /\ RatioOfDate /\ ColdForecast
    /\ input.cropType = "wheat"
    /\ DaysFromNormal < -7
    /\ probe.result = Ratios(65, 25, 10)

\* a recommendation computed with straw returned to the field
Recommended == probe.op = "recommend"
StrawReturned == Recommended /\ probe.result.n_additional > 0

\* the share of the required N fertilizer that the base dressing takes
BaseShare(rec) == XScale(rec.need["N"], RatioOr(rec.ratio.base, 50), 100)

\* C23: the additional N of returned straw (0.005 of its dry mass) is added
\* to the base dressing only, for rice and for wheat: the base-stage N is its
\* share of the required N fertilizer plus exactly that term, the base urea is
\* that N over the urea content, the other stages carry their share alone, and
\* the balance subtracts the released straw N but not the additional term.
C23_StrawAdditionalToBaseOnly ==
    StrawReturned =>
        LET rec == probe.result
        IN /\ rec.stages.N_base = XPlus(BaseShare(rec), rec.n_additional)
           /\ rec.need["N"] = FertilizerNeed(rec.demand["N"], rec.soil_supply["N"],
                                             rec.straw_supply["N"], rec.efficiency["N"])
           /\ rec.crop = "rice" =>
                 /\ rec.usage.urea_base = XRoundTenth(XScale(rec.stages.N_base, 100, 46))
                 /\ rec.stages.N_tiller = XScale(rec.need["N"], RatioOr(rec.ratio.mid, 25), 100)
                 /\ rec.stages.N_panicle = XScale(rec.need["N"], RatioOr(rec.ratio.late, 25), 100)

\* the same for rice alone
C23_RiceStrawAdditionalToBaseOnly == (StrawReturned /\ input.cropType = "rice") => C23_StrawAdditionalToBaseOnly

\* a soil record came out of the resolver
Resolved == probe.op = "resolveAt"

\* C24: in every soil record of the resolver the level reported for a
\* nutrient is the threshold classification of the value reported for it and
\* used in the balance (for a raster sample, of the decoded value), so the
\* rounding of the reported value never makes the two disagree.
C24_LevelOfReportedValue ==
    Resolved =>
        \A x \in Nutrients :
            probe.result.nutrient_levels[x]
              = getNutrientLevel(probe.result.soil[x], LayerOf(x))

\* the same for the nutrients that are not simulated
C24_LevelOfMeasuredValue ==
    Resolved =>
        \A x \in Nutrients :
            probe.result.data_source[x] # "simulated" =>
                probe.result.nutrient_levels[x]
                  = getNutrientLevel(probe.result.soil[x], LayerOf(x))

\* the range a simulated value of nutrient x is clamped to, in hundredths
SimulatedMin(x) == CASE x = "N" -> 5000 [] x = "P" -> 500 [] OTHER -> 6000
SimulatedMax(x) == CASE x = "N" -> 15000 [] x = "P" -> 4000 [] OTHER -> 20000
InSimulatedRange(x, value) ==
    IsNum(value) /\ value.v >= SimulatedMin(x) /\ value.v <= SimulatedMax(x)

\* C25: for every longitude, latitude and random draw the simulated soil
\* values lie in N [50, 150], P [5, 40], K [60, 200], their source is the
\* simulated one and is_default is true; the resolver passes them on so.
C25_SimulatedClamped ==
    /\ probe.op = "simulate" =>
          /\ \A x \in Nutrients :
                /\ InSimulatedRange(x, probe.result.soil[x])
                /\ probe.result.data_source[x] = "simulated"
          /\ probe.result.is_default
    /\ probe.op = "generate" =>
          \A x \in Nutrients :
              LET entry == probe.result[LayerOf(x)]
              IN /\ InSimulatedRange(x, entry.value)
                 /\ entry.data_source = "simulated"
                 /\ entry.is_default
    /\ Resolved =>
          /\ \A x \in Nutrients :
                probe.result.data_source[x] = "simulated" =>
                    InSimulatedRange(x, probe.result.soil[x])
          /\ (\A x \in Nutrients : probe.result.data_source[x] = "simulated") =>
                probe.result.is_default

\* far north-east of the reference point with the largest draws: the trend
\* is above every range and all three values sit on their upper limit
C25_Witness ==
    /\ probe.op = "simulate"
    /\ input.lon = FRound(144, 0, FALSE)
    /\ input.lat = FRound(55, 0, FALSE)
    /\ probe.u = [x \in Nutrients |-> RandomScale - 1]
    /\ probe.result.soil = [x \in Nutrients |-> Num(SimulatedMax(x))]

\* the order of the levels
LevelRank(level) == CASE level = "low" -> 0 [] level = "medium" -> 1 [] OTHER -> 2

\* analyzeRainRisk ran, and the numbers its checks read
RainAnalyzed == probe.op = "rain"
RainCurrent ==
    IF input.qweatherData = Null THEN [precip |-> 0, pop |-> 0]
    ELSE [precip |-> OrDefault(ParseFloat(input.qweatherData.current.precip), 0),
          pop |-> OrDefault(ParseFloat(input.qweatherData.current.pop), 0)]
RainToday ==
    IF input.dailyForecast = <<>> THEN [precip |-> 0, pop |-> 0]
    ELSE [precip |-> OrDefault(ParseFloat(input.dailyForecast[1].precip), 0),
          pop |-> OrDefault(ParseFloat(input.dailyForecast[1].pop), 0)]

\* the levels of the checks that triggered
TriggeredRanks ==
    {0}
    \cup (IF RainCurrent.precip > HeavyRain THEN {2}
          ELSE IF RainCurrent.precip > ModerateRain THEN {1} ELSE {})
    \cup (IF RainCurrent.pop > CurrentPopLimit THEN {1} ELSE {})
    \cup (IF RainToday.pop > TodayPopHigh THEN {1} ELSE {})
    \cup (IF RainToday.precip > HeavyForecastRain THEN {2} ELSE {})
    \cup (IF FirstKeyword(input.weather_desc, 1) = 0 THEN {}
          ELSE {LevelRank(rainKeywords[FirstKeyword(input.weather_desc, 1)].level)})

\* C26: inside analyzeRainRisk the level never decreases from one check to
\* the next; the keyword check raises the level or leaves it; and the final
\* level is at least the level of every check that triggered.
C26_RainLevelNeverDecreases ==
    RainAnalyzed =>
        /\ \A i \in 1..(Len(probe.trace) - 1) :
              LevelRank(probe.trace[i].level) <= LevelRank(probe.trace[i + 1].level)
        /\ probe.result = probe.trace[Len(probe.trace)]
        /\ \A r \in TriggeredRanks : r <= LevelRank(probe.result.level)

\* heavy rain now with a high rain probability, and a description with a
\* medium keyword: high is reached at the first check and kept to the end
C26_Witness ==
    /\ RainAnalyzed
    /\ RainCurrent.precip > HeavyRain
    /\ RainCurrent.pop > CurrentPopLimit
    /\ input.weather_desc = ModerateRainText
    /\ probe.trace[2].level = "high"
    /\ probe.result.level = "high"

\* C27: whenever the weather analysis of a timing answer has overall level
\* medium or high, can_fertilize is false, whatever the crop and the growth
\* stage; can_fertilize is true only together with overall level low.
C27_NoFertilizingAboveLow ==
    TimingAnswered =>
        /\ resp.weather.warning_level \in {"medium", "high"} =>
              ~resp.timing_advice.can_fertilize
        /\ resp.timing_advice.can_fertilize => resp.weather.warning_level = "low"

\* a crop in a stage that takes fertilizer, refused for the weather alone
C27_Witness ==
    /\ TimingAnswered
    /\ resp.growth_stage.stage \in {"tillering", "jointing"}
    /\ resp.weather.warning_level = "medium"
    /\ ~resp.timing_advice.can_fertilize

\* a rice recommendation whose required N and K masses are numbers
RiceStaged ==
    /\ probe.op = "staging"
    /\ input.cropType = "rice"
    /\ IsNum(probe.result.need["N"])
    /\ IsNum(probe.result.need["K"])

\* C28: for rice, before rounding, the base, tillering and panicle N amounts
\* add up to the required N fertilizer plus the additional N of the straw,
\* and the base and panicle potassium chloride masses add up to the required
\* K over the K2O content of 0.60, for every sowing date and forecast
\* temperature.
C28_RiceStagesConserveDose ==
    RiceStaged =>
        LET rec == probe.result
            amount == rec.unrounded
        IN /\ amount.N_base.v + amount.N_tiller.v + amount.N_panicle.v
                = (rec.need["N"].v + rec.n_additional) * 100
           /\ amount.KCl_base.v + amount.KCl_panicle.v
                = (rec.need["K"].v * 100 * 3) \div 60
           /\ rec.ratio.base + rec.ratio.mid + rec.ratio.late = 100

\* late sowing under a cold forecast, with straw returned and both doses
\* positive
C28_Witness ==
    /\ RiceStaged
    /\ input.sowing_date = Date(2025, 6, 25)
    /\ input.temperature_forecast = Num(175)
    /\ probe.result.ratio = Ratios(60, 30, 10)
    /\ probe.result.n_additional > 0
    /\ probe.result.need["N"].v > 0
    /\ probe.result.need["K"].v > 0

\* C29: a sowing date that is given but does not parse never yields a stage
\* of the season: the growth stage reported is unknown with the description
\* of a date that could not be parsed, and never maturity.
C29_UnparsableDateIsUnknown ==
    (TimingAnswered /\ input.sowing_date = InvalidDate) =>
        /\ resp.growth_stage = Stage("unknown", "date parse error")
        /\ resp.growth_stage.stage # "maturity"

\* the ids of the stored calculations are all different
UniqueIds(calculations) ==
    \A i, j \in 1..Len(calculations) :
        calculations[i].id = calculations[j].id => i = j

\* the store was used
StoreUsed == probe.op = "db" /\ Len(probe.returned) > 0

\* C30: after any sequence of init, saveCalculation and cleanupOldData,
\* restarts on the persisted file included, no two stored calculations share
\* an id, every id saveCalculation returns is greater than all ids it
\* returned before, and the calculation_count of every session entry is the
\* number of calculations saved with that session since the entry was
\* created.
C30_IdsUniqueAndIncreasing ==
    probe.op = "db" =>
        /\ UniqueIds(db.calculations)
        /\ \A i, j \in 1..Len(probe.returned) :
              i < j => probe.returned[i] < probe.returned[j]
        /\ \A k \in 1..Len(db.user_sessions) :
              db.user_sessions[k].calculation_count
                = probe.saved[db.user_sessions[k].id]

\* the part of it about the stored records and the session counts
C30_StoredIdsUnique ==
    probe.op = "db" =>
        /\ UniqueIds(db.calculations)
        /\ dataFile.exists => UniqueIds(dataFile.calculations)
        /\ \A k \in 1..Len(db.user_sessions) :
              db.user_sessions[k].calculation_count
                = probe.saved[db.user_sessions[k].id]

\* the request is one the route accepted and whose yield is inside 1-1000
AcceptedInRange ==
    /\ probe.op = "calculate"
    /\ resp.status = 200
    /\ IsNum(input.yield) /\ input.yield.v >= 10 /\ input.yield.v <= 10000

IsMass(m) == IsNum(m) /\ m.v >= 0

\* C1: for an accepted request every product mass and every nutrient mass of
\* the recommendation is a number >= 0, and a nutrient whose soil and straw
\* supply exceed the demand needs exactly 0.
C1_MassesDefinedNonNegative ==
    AcceptedInRange =>
        /\ \A f \in DOMAIN probe.result.usage : IsMass(probe.result.usage[f])
        /\ \A f \in DOMAIN probe.result.nutrient : IsMass(probe.result.nutrient[f])
        /\ \A x \in Nutrients :
             /\ IsMass(probe.result.need[x])
             /\ (IsNum(probe.result.soil_supply[x])
                 /\ probe.result.soil_supply[x].v + probe.result.straw_supply[x]
                      > probe.result.demand[x])
                  => probe.result.need[x] = Num(0)

\* the request fails validation as the claim lists it
FailsValidation(body) ==
    \/ body.crop \notin Crops
    \/ body.yield = Null
    \/ IsNum(body.yield) /\ (body.yield.v < 10 \/ body.yield.v > 10000)
    \/ ~InWindow(body.lon, body.lat)
    \/ \E x \in Nutrients :
         /\ body.custom_soil_data.present
         /\ IsNum(body.custom_soil_data.v[x])
         /\ (body.custom_soil_data.v[x].v < 0
             \/ body.custom_soil_data.v[x].v > CustomMax(x))

\* C2: a request that fails validation is answered with an error, the model
\* is not called, no record is saved, no session is created or updated and
\* no cookie is set.
C2_RejectedWithoutSideEffects ==
    [][(resp = NoResponse /\ resp' # NoResponse /\ FailsValidation(input)) =>
          /\ resp'.status = 400
          /\ ~probe'.called
          /\ db' = db
          /\ resp'.set_cookie = ""]_vars

\* C5: every soil value handed to calculateSoilSupply is strictly positive.
C5_SoilValuesPositive ==
    (probe.op = "calculate" /\ resp.status = 200) =>
        \A x \in Nutrients : NumGt(probe.result.soil[x], 0)

\* C6: extractValueFromGeoTIFF returns null or reads samples at an index
\* row*width+col with 0 <= col < width and 0 <= row < height inside the
\* sample array; outside the bounding box it returns null without reading;
\* this includes the coordinates exactly on the bounding box.
C6_SamplerInBounds ==
    probe.op \in {"point", "pixel"} =>
        /\ ~ProbedLayer.loaded => probe.result = Null /\ ~probe.access.read
        /\ ProbedLayer.loaded =>
             /\ OutsideBBox(ProbedLayer, probe.lon, probe.lat)
                  => probe.result = Null /\ ~probe.access.read
             /\ probe.access.read =>
                  /\ probe.access.col >= 0 /\ probe.access.col < ProbedLayer.width
                  /\ probe.access.row >= 0 /\ probe.access.row < ProbedLayer.height
                  /\ probe.access.idx
                       = probe.access.row * ProbedLayer.width + probe.access.col
                  /\ probe.access.idx < Len(ProbedLayer.data)
             /\ probe.result # Null =>
                  /\ probe.access.read
                  /\ probe.result = Num(ProbedLayer.data[probe.access.idx + 1])

\* a probe exactly on the east edge of a loaded layer: flooring gives
\* col = width and the re-check turns it into null
C6_Witness ==
    /\ probe.op = "point"
    /\ ProbedLayer.loaded
    /\ probe.lon = ProbedLayer.maxX
    /\ probe.access = [read |-> FALSE, why |-> "pixel"]
    /\ probe.result = Null

\* C7: sampling at a pixel's own coordinate returns that pixel's stored
\* sample whenever the stored sample is not NoData.
C7_RoundTrip ==
    probe.op = "pixel" =>
        LET stored == ProbedLayer.data[input.row * ProbedLayer.width + input.col + 1]
        IN ~IsNoData(stored) => probe.result = Num(stored)

\* C9: the split ratios of adjustFertilizerRatio sum to 1.0 and each lies
\* in [0, 1], for both crops, every sowing regime and every forecast
\* temperature.
C9_RatiosSumToOne ==
    (probe.op = "ratio" /\ input.cropType \in Crops) =>
        /\ probe.result.base + probe.result.mid + probe.result.late = 100
        /\ \A f \in {probe.result.base, probe.result.mid, probe.result.late} :
             f >= 0 /\ f <= 100

\* a late-sown rice crop under a cold forecast: 0.60 / 0.30 / 0.10
C9_Witness ==
    /\ probe.op = "ratio"
    /\ input.cropType = "rice"
    /\ input.sowingDate.valid
    /\ input.tempForecast < RiceColdTemp
    /\ probe.result = Ratios(60, 30, 10)

\* C10: when the sowing date cannot be parsed, adjustFertilizerRatio returns
\* the crop's normal-regime fractions unmodified, whatever the forecast
\* temperature.
C10_UnparsedDateNormalRatios ==
    (probe.op = "ratio" /\ input.cropType \in Crops /\ ~input.sowingDate.valid) =>
        probe.result = NormalRatios(input.cropType)

====
